---------------------------- MODULE Spec2Model ----------------------------
(***************************************************************************)
(* A model of cvedb (trailofbits/cvedb): the CPE applicability language    *)
(* and its serialization (cpe.py, cve.py), feeds and their staleness       *)
(* (feed.py, nvd.py), the database-backed feeds and the session (db.py)    *)
(* and the schema-versioned store with its query compiler (schemas.py,     *)
(* sql.py, search.py).                                                     *)
(*                                                                         *)
(* Text is modelled as a sequence of one-character strings, so that        *)
(* read(1), readline() and the parsers work on characters as the code      *)
(* does.  Each subsystem has its own specification (SpecTree, SpecFeed,    *)
(* SpecDb, SpecSchema, SpecCtx); a specification changes only its own      *)
(* variables and pins the others to their initial value.                   *)
(***************************************************************************)
EXTENDS Integers, Sequences, FiniteSets, TLC

VARIABLES
    \* ---- SpecTree: applicability trees and their serialization
    tree,       \* the Testable under construction (or a Configurations)
    text,       \* the result of tree.dumps()
    loaded,     \* the result of Testable.loads(text)
    tphase,     \* "build" | "dumped" | "loaded"
    \* ---- SpecSchema: the store of schemas.py
    sversion,   \* PRAGMA user_version: the schema that created the tables
    scves,      \* table cves: a set of rows, (id, feed) the primary key
    sdescs,     \* table descriptions: its rows in rowid order
    srefs,      \* table refs: its rows in rowid order
    scpes,      \* table cpes: its rows in rowid order (the rowid is the index)
    sconfs,     \* table configurations: a set of rows, (cpe, cve) the primary key
    sadds,      \* the number of add calls so far
    sop         \* the last operation on the store and its outcome

treeVars == <<tree, text, loaded, tphase>>
tables == <<scves, sdescs, srefs, scpes, sconfs>>
schemaVars == <<sversion, scves, sdescs, srefs, scpes, sconfs, sadds, sop>>

\* the clock (time.time(), in ticks) and how often it was advanced
VARIABLES now, nadv
clockVars == <<now, nadv>>

\* db.py: the feeds, cves and descriptions tables, the time at which each feed's
\* last DbBackedFeed.reload that returned made its freshness evaluation, the number
\* of operations so far, the last operation, and the session's reload in progress
VARIABLES dfeeds, dcves, ddescs, evalAt, dops, dlast, dsess
dbVars == <<dfeeds, dcves, ddescs, evalAt, dops, dlast, dsess>>

\* feed.py: a plain Feed's _data and the last call made on it
VARIABLES fdata, flast
feedVars == <<fdata, flast>>

\* db.py, CVEdbContext: _entries, _connection, _db, the number of connections
\* opened so far, what each enter that has not exited returned, the number of
\* calls so far, and the last call
VARIABLES centries, cconn, cdb, copened, cstack, cops, clast
ctxVars == <<centries, cconn, cdb, copened, cstack, cops, clast>>

\* cpe.py, matching: the CPE or range's wrapped CPE that matches (self), the target
\* CPE (cpe), and the last call made with its result
VARIABLES ma, mb, mlast
matchVars == <<ma, mb, mlast>>

\* cpe.py and nvd.py, parsing: a CPE object, and the last call made (a round trip
\* of the object, the parse of a text, or the load of a feed's JSON) with its result
VARIABLES pcpe, plast
parseVars == <<pcpe, plast>>

\* feed.py: the global FEEDS map, the number of feed objects constructed so far,
\* and the last constructor call
VARIABLES FEEDS, rmade, rlast
regVars == <<FEEDS, rmade, rlast>>

\* schemas.py: the database file (PRAGMA user_version and the rows of each table
\* that exists) and the last call made on it
VARIABLES odb, olast
openVars == <<odb, olast>>

\* feed.py, Data.search: the CVEs the Data iterates, in its iteration order, and
\* the last call made on it
VARIABLES qdata, qlast
sortVars == <<qdata, qlast>>

\* sql.py: the Query objects constructed so far, each with its parent and its list
\* of members, and the last call made on them
VARIABLES wnodes, wlast
whereVars == <<wnodes, wlast>>

\* schemas.py, Schema.migrate: the version of the schema object at hand and the
\* last call made with it
VARIABLES gver, glast
migVars == <<gver, glast>>

lateVars == <<sortVars, whereVars, migVars>>

\* what the steps of one specification leave alone: the other specifications' variables
newVars == <<matchVars, parseVars, regVars, openVars, lateVars>>
notTree == <<schemaVars, clockVars, dbVars, feedVars, ctxVars, newVars>>
notSchema == <<treeVars, clockVars, dbVars, feedVars, ctxVars, newVars>>
notDb == <<treeVars, schemaVars, feedVars, ctxVars, newVars>>
notFeed == <<treeVars, schemaVars, dbVars, ctxVars, newVars>>
notCtx == <<treeVars, schemaVars, clockVars, dbVars, feedVars, newVars>>
notClock == <<treeVars, schemaVars, dbVars, feedVars, ctxVars, newVars>>
oldVars == <<treeVars, schemaVars, clockVars, dbVars, feedVars, ctxVars, lateVars>>
notMatch == <<oldVars, parseVars, regVars, openVars>>
notParse == <<oldVars, matchVars, regVars, openVars>>
notReg == <<oldVars, matchVars, parseVars, openVars>>
notOpen == <<oldVars, matchVars, parseVars, regVars>>
firstVars == <<treeVars, schemaVars, clockVars, dbVars, feedVars, ctxVars, matchVars, parseVars, regVars, openVars>>
notSort == <<firstVars, whereVars, migVars>>
notWhere == <<firstVars, sortVars, migVars>>
notMig == <<firstVars, sortVars, whereVars>>

(***************************************************************************)
(* Characters and strings                                                  *)
(***************************************************************************)
NL == "\n"

LowerSeq == <<"a","b","c","d","e","f","g","h","i","j","k","l","m",
              "n","o","p","q","r","s","t","u","v","w","x","y","z">>
UpperSeq == <<"A","B","C","D","E","F","G","H","I","J","K","L","M",
              "N","O","P","Q","R","S","T","U","V","W","X","Y","Z">>
DigitSeq == <<"0","1","2","3","4","5","6","7","8","9">>

Range(s) == {s[i] : i \in DOMAIN s}

LowerChars == Range(LowerSeq)
UpperChars == Range(UpperSeq)
DigitChars == Range(DigitSeq)
AlphaChars == LowerChars \cup UpperChars

IndexOf(s, c) == CHOOSE i \in DOMAIN s : s[i] = c

\* str.lower() and str.upper() on one character
LowerChar(c) == IF c \in UpperChars THEN LowerSeq[IndexOf(UpperSeq, c)] ELSE c
UpperChar(c) == IF c \in LowerChars THEN UpperSeq[IndexOf(LowerSeq, c)] ELSE c
Lower(s) == [i \in DOMAIN s |-> LowerChar(s[i])]
Upper(s) == [i \in DOMAIN s |-> UpperChar(s[i])]

\* s[from:] of Python, with a 1-based first index
Drop(s, n) == IF n >= Len(s) THEN <<>> ELSE SubSeq(s, n + 1, Len(s))
Take(s, n) == IF n >= Len(s) THEN s ELSE SubSeq(s, 1, n)

\* s.find(c): the 1-based index of the first c in s, 0 when there is none
Find(s, c) ==
    IF \E i \in DOMAIN s : s[i] = c
    THEN CHOOSE i \in DOMAIN s : s[i] = c /\ \A j \in 1..(i - 1) : s[j] # c
    ELSE 0

\* needle in haystack (Python's substring test)
Contains(hay, needle) ==
    \E i \in 0..(Len(hay) - Len(needle)) :
        \A j \in 1..Len(needle) : hay[i + j] = needle[j]

\* TextIO.readline(): up to and including the first newline, or all the rest
ReadLine(s) ==
    LET i == Find(s, NL)
    IN  IF i = 0 THEN [line |-> s, rest |-> <<>>]
        ELSE [line |-> Take(s, i), rest |-> Drop(s, i)]

\* str(n) for a non-negative integer
RECURSIVE IntToStr(_)
IntToStr(n) ==
    IF n < 10 THEN <<DigitSeq[n + 1]>>
    ELSE IntToStr(n \div 10) \o <<DigitSeq[(n % 10) + 1]>>

\* str.strip() of the whitespace the model has (newlines)
RECURSIVE Strip(_)
Strip(s) ==
    IF s = <<>> THEN s
    ELSE IF Head(s) = NL THEN Strip(Tail(s))
    ELSE IF s[Len(s)] = NL THEN Strip(Take(s, Len(s) - 1))
    ELSE s

RECURSIVE DigitsValue(_)
DigitsValue(s) ==
    IF s = <<>> THEN 0
    ELSE 10 * DigitsValue(Take(s, Len(s) - 1)) + (IndexOf(DigitSeq, s[Len(s)]) - 1)

\* int(text): surrounding whitespace is ignored; anything but digits is a ValueError
ParseInt(s) ==
    LET t == Strip(s)
    IN  IF t # <<>> /\ \A i \in DOMAIN t : t[i] \in DigitChars
        THEN [err |-> FALSE, val |-> DigitsValue(t)]
        ELSE [err |-> TRUE, val |-> 0]


(***************************************************************************)
(* CPE 2.3 names (cpe.py)                                                  *)
(***************************************************************************)
\* Logical.ANY, Logical.NA, a Part, an attribute-value string
ANY == [k |-> "ANY"]
NA == [k |-> "NA"]
PartOf(c) == [k |-> "part", v |-> c]
AV(s) == [k |-> "str", v |-> s]

PartValues == {"h", "o", "a"}

\* Language.__init__ keeping the region as it was given
LanguageRegionAsGiven(code, region) ==
    [k |-> "lang", code |-> Lower(code),
     region |-> IF region = <<>> THEN [k |-> "none"]
                ELSE IF Len(region) = 2 THEN [k |-> "str", v |-> region]
                ELSE [k |-> "int", v |-> DigitsValue(region)]]

\* Language.__init__ given what parse_langtag passes: a 2-3 letter code and a
\* region that is absent, two letters or three digits
NoRegion == [k |-> "none"]
Language(code, region) ==
    [k |-> "lang", code |-> Lower(code),
     region |-> IF region = <<>> THEN NoRegion
                ELSE IF Len(region) = 2 THEN [k |-> "str", v |-> Lower(region)]
                ELSE [k |-> "int", v |-> DigitsValue(region)]]

\* f"{n:03}"
Pad3(n) ==
    LET d == IntToStr(n)
    IN  IF Len(d) = 1 THEN <<"0", "0">> \o d
        ELSE IF Len(d) = 2 THEN <<"0">> \o d
        ELSE d

\* Language.__str__ with the region code written without its leading zeros
LanguageStrUnpadded(l) ==
    IF l.region.k = "none" THEN l.code
    ELSE IF l.region.k = "int" THEN l.code \o <<"-">> \o IntToStr(l.region.v)
    ELSE l.code \o <<"-">> \o l.region.v

\* Language.__str__
LanguageStr(l) ==
    IF l.region.k = "none" THEN l.code
    ELSE IF l.region.k = "int" THEN l.code \o <<"-">> \o Pad3(l.region.v)
    ELSE l.code \o <<"-">> \o l.region.v

\* str() of the value of a CPE field
FieldStr(v) ==
    CASE v.k = "ANY" -> <<"*">>
      [] v.k = "NA" -> <<"-">>
      [] v.k = "part" -> <<v.v>>
      [] v.k = "lang" -> LanguageStr(v)
      [] OTHER -> v.v

CPEAttrs == <<"part", "vendor", "product", "version", "update", "edition", "lang",
              "sw_edition", "target_sw", "target_hw", "other">>

\* the dataclass CPE, every field defaulting to Logical.ANY
CPE0 == [a \in Range(CPEAttrs) |-> ANY]

RECURSIVE JoinColon(_)
JoinColon(parts) ==
    IF Len(parts) = 0 THEN <<>>
    ELSE IF Len(parts) = 1 THEN parts[1]
    ELSE parts[1] \o <<":">> \o JoinColon(Tail(parts))

\* CPE.formatted_string
formatted_string(cpe) ==
    <<"c", "p", "e", ":", "2", ".", "3", ":">> \o
    JoinColon([i \in DOMAIN CPEAttrs |-> FieldStr(cpe[CPEAttrs[i]])])

\* AV_STRING_REGEX: the characters of an unquoted body and those a backslash quotes
AvPlain == AlphaChars \cup DigitChars \cup {"-", ".", "_"}
\* (the double quote and the backquote are not characters of the model's alphabet)
AvQuoted == {"\\", "?", "*", "!", "#", "$", "%", "&", "'", "(", ")", "+", ",",
             "/", ":", ";", "<", "=", ">", "@", "[", "]", "^", "{", "|", "}", "~"}

\* the length of the longest run of c at the start of s
RECURSIVE RunLen(_, _)
RunLen(s, c) == IF s # <<>> /\ Head(s) = c THEN 1 + RunLen(Tail(s), c) ELSE 0

\* the body of an AV string (unquoted characters and backslash-quoted punctuation,
\* one or more) matched greedily at the start of s: its length
RECURSIVE AvBodyLen(_)
AvBodyLen(s) ==
    IF s = <<>> THEN 0
    ELSE IF Head(s) \in AvPlain THEN 1 + AvBodyLen(Tail(s))
    ELSE IF Head(s) = "\\" /\ Len(s) >= 2 /\ s[2] \in AvQuoted THEN 2 + AvBodyLen(Drop(s, 2))
    ELSE 0

\* the optional wildcard (a run of question marks, or one star) matched greedily at
\* the start of s: its length
AvWildLen(s) ==
    IF s = <<>> THEN 0
    ELSE IF Head(s) = "?" THEN RunLen(s, "?")
    ELSE IF Head(s) = "*" THEN 1
    ELSE 0

\* the length of group 1 of AV_STRING_REGEX matched at the start of s, -1 for no match
AvMatchLen(s) ==
    LET p == AvWildLen(s)
        b == AvBodyLen(Drop(s, p))
    IN  IF b > 0 THEN p + b + AvWildLen(Drop(s, p + b))
        ELSE IF s # <<>> /\ Head(s) \in {"*", "-"} THEN 1
        ELSE -1

Err == [err |-> TRUE, val |-> ANY, rest |-> <<>>]
Ok(v, r) == [err |-> FALSE, val |-> v, rest |-> r]

\* FormattedStringParser.parse_avstring
parse_avstring(s) ==
    LET n == AvMatchLen(s)
        match == Take(s, n)
    IN  IF n < 0 THEN Err
        ELSE IF match = <<"*">> THEN Ok(ANY, Drop(s, n))
        ELSE IF match = <<"-">> THEN Ok(NA, Drop(s, n))
        ELSE Ok(AV(match), Drop(s, n))

\* LANGTAG_REGEX: the lengths of the code and of the region of the match, code 0 for
\* no match
LangCodeLen(s) ==
    IF Len(s) >= 3 /\ \A i \in 1..3 : s[i] \in AlphaChars THEN 3
    ELSE IF Len(s) >= 2 /\ \A i \in 1..2 : s[i] \in AlphaChars THEN 2
    ELSE 0

LangRegionLen(s) ==
    IF Len(s) >= 3 /\ s[1] = "-" /\ \A i \in 2..3 : s[i] \in AlphaChars THEN 2
    ELSE IF Len(s) >= 4 /\ s[1] = "-" /\ \A i \in 2..4 : s[i] \in DigitChars THEN 3
    ELSE 0

\* FormattedStringParser.parse_langtag
parse_langtag(s) ==
    LET c == LangCodeLen(s)
        r == LangRegionLen(Drop(s, c))
    IN  IF c = 0 THEN Err
        ELSE IF r = 0 THEN Ok(Language(Take(s, c), <<>>), Drop(s, c))
        ELSE Ok(Language(Take(s, c), SubSeq(s, c + 2, c + 1 + r)), Drop(s, c + 1 + r))

\* FormattedStringParser.parse_lang
parse_lang(s) ==
    IF s # <<>> /\ Head(s) = "*" THEN Ok(ANY, Tail(s))
    ELSE IF s # <<>> /\ Head(s) = "-" THEN Ok(NA, Tail(s))
    ELSE parse_langtag(s)

\* FormattedStringParser.expect
expect(s, t) ==
    IF Len(s) >= Len(t) /\ Take(s, Len(t)) = t /\ s # <<>> THEN Ok(ANY, Drop(s, Len(t)))
    ELSE IF t = <<>> THEN Ok(ANY, s)
    ELSE Err

\* FormattedStringParser.up_to(delimiter), the delimiter consumed
up_to(s, c) ==
    LET i == Find(s, c)
    IN  IF i = 0 THEN Err ELSE Ok(Take(s, i - 1), Drop(s, i))

\* the fields after the part, in the order parse() reads them: the value parsed
\* for CPEAttrs[i], i in 2..11, each but the last followed by expect(":")
RECURSIVE ParseFields(_, _, _)
ParseFields(s, i, acc) ==
    LET f == IF CPEAttrs[i] = "lang" THEN parse_lang(s) ELSE parse_avstring(s)
        e == expect(f.rest, <<":">>)
        got == [acc EXCEPT ![CPEAttrs[i]] = f.val]
    IN  IF f.err THEN Err
        ELSE IF i = Len(CPEAttrs) THEN Ok(got, f.rest)
        ELSE IF e.err THEN Err
        ELSE ParseFields(e.rest, i + 1, got)

\* FormattedStringParser.parse: the CPE and what is left of the input after the
\* 11th field (which parse() does not look at)
parse(fs) ==
    LET p == expect(fs, <<"c", "p", "e", ":">>)
        v == up_to(p.rest, ":")
        c == up_to(v.rest, ":")
        part == IF c.val = <<"*">> THEN ANY
                ELSE IF c.val = <<"-">> THEN NA
                ELSE PartOf(c.val[1])
    IN  IF p.err THEN Err
        ELSE IF v.err \/ v.val # <<"2", ".", "3">> THEN Err
        ELSE IF c.err THEN Err
        ELSE IF ~(Len(c.val) = 1 /\ c.val[1] \in PartValues \cup {"*", "-"}) THEN Err
        ELSE ParseFields(c.rest, 2, [CPE0 EXCEPT !.part = part])

\* parse_formatted_string
parse_formatted_string(fs) == parse(fs)

(***************************************************************************)
(* Applicability trees and their serialization (cpe.py, cve.py)            *)
(***************************************************************************)
None == [some |-> FALSE]
Some(v) == [some |-> TRUE, v |-> v]

\* the constructors: CPE, And/Or (LogicalTest.__init__), Negate, VersionRange,
\* Configurations; uid is the class's one-character tag
Leaf(cpe) == [uid |-> "c", cpe |-> cpe]
LogicalTest(uid, children, negate) == [uid |-> uid, negate |-> negate, children |-> children]
Negate(wrapped) == [uid |-> "!", wrapped |-> wrapped]
VersionRange(wrapped, start, end, include_start, include_end) ==
    [uid |-> "v", wrapped |-> wrapped, start |-> start, end |-> end,
     include_start |-> include_start, include_end |-> include_end]
Configurations(testable) == [uid |-> "C", testable |-> testable]

\* __eq__ of CPE (dataclass), LogicalTest, Negate, VersionRange and Configurations:
\* same class and equal fields, children compared in order; on the model's values
\* this is equality of the records
TestableEq(a, b) == a = b

RECURSIVE dump(_), DumpAll(_)
\* Testable.dump: the uid, then the class's dump_content
dump(t) ==
    <<t.uid>> \o
    CASE t.uid = "c" -> formatted_string(t.cpe) \o <<NL>>
      [] t.uid \in {"a", "o"} ->
            <<IF t.negate THEN "~" ELSE "=">> \o IntToStr(Len(t.children)) \o <<NL>>
            \o DumpAll(t.children)
      [] t.uid = "!" -> dump(t.wrapped)
      [] t.uid = "v" ->
            <<IF t.include_start THEN "I" ELSE "E">>
            \o (IF t.start.some THEN t.start.v ELSE <<>>) \o <<NL>>
            \o <<IF t.include_end THEN "I" ELSE "E">>
            \o (IF t.end.some THEN t.end.v ELSE <<>>) \o <<NL>>
            \o dump(t.wrapped)
      [] t.uid = "C" -> IntToStr(Len(t.testable)) \o <<NL>> \o DumpAll(t.testable)

DumpAll(ts) == IF ts = <<>> THEN <<>> ELSE dump(Head(ts)) \o DumpAll(Tail(ts))

\* Testable.dumps
dumps(t) == dump(t)

\* what readline() returns as the start or end of a VersionRange: None only when
\* the line is empty (the stream was at its end)
LineOrNone(line) == IF line = <<>> THEN None ELSE Some(line)

RECURSIVE load(_), LoadN(_, _, _)
\* Testable.load: read(1) selects the class in TESTABLES_BY_UID, whose load_content
\* reads the rest
load(s) ==
    IF s = <<>> THEN Err
    ELSE
      LET uid == Head(s)
          r == Tail(s)
      IN  CASE uid = "c" ->
                LET l == ReadLine(r)
                    p == parse_formatted_string(l.line)
                IN  IF p.err THEN Err ELSE Ok(Leaf(p.val), l.rest)
            [] uid \in {"a", "o"} ->
                LET negate == r # <<>> /\ Head(r) = "~"
                    l == ReadLine(Drop(r, 1))
                    n == ParseInt(l.line)
                    ch == LoadN(l.rest, n.val, <<>>)
                IN  IF n.err \/ ch.err THEN Err
                    ELSE Ok(LogicalTest(uid, ch.val, negate), ch.rest)
            [] uid = "!" ->
                LET w == load(r)
                IN  IF w.err THEN Err ELSE Ok(Negate(w.val), w.rest)
            [] uid = "v" ->
                LET include_start == r # <<>> /\ Head(r) = "I"
                    l1 == ReadLine(Drop(r, 1))
                    include_end == l1.rest # <<>> /\ Head(l1.rest) = "I"
                    l2 == ReadLine(Drop(l1.rest, 1))
                    w == load(l2.rest)
                IN  IF w.err THEN Err
                    ELSE Ok(VersionRange(w.val, LineOrNone(l1.line), LineOrNone(l2.line),
                                         include_start, include_end), w.rest)
            [] uid = "C" ->
                LET l == ReadLine(r)
                    n == ParseInt(l.line)
                    ch == LoadN(l.rest, n.val, <<>>)
                IN  IF n.err \/ ch.err THEN Err ELSE Ok(Configurations(ch.val), ch.rest)
            [] OTHER -> Err

\* [Testable.load(stream) for i in range(n)]
LoadN(s, n, acc) ==
    IF n = 0 THEN Ok(acc, s)
    ELSE LET c == load(s)
         IN  IF c.err THEN Err ELSE LoadN(c.rest, n - 1, Append(acc, c.val))

\* Testable.loads
loads(s) == load(s)

RECURSIVE Depth(_)
Depth(t) ==
    CASE t.uid = "c" -> 0
      [] t.uid \in {"!", "v"} -> 1 + Depth(t.wrapped)
      [] t.uid \in {"a", "o"} ->
            1 + (IF t.children = <<>> THEN 0
                 ELSE CHOOSE d \in {Depth(t.children[i]) : i \in DOMAIN t.children} :
                        \A i \in DOMAIN t.children : Depth(t.children[i]) <= d)
      [] t.uid = "C" ->
            1 + (IF t.testable = <<>> THEN 0
                 ELSE CHOOSE d \in {Depth(t.testable[i]) : i \in DOMAIN t.testable} :
                        \A i \in DOMAIN t.testable : Depth(t.testable[i]) <= d)

(***************************************************************************)
(* Matching (cpe.py, cve.py).  A result is "T", "F" or "E": the call       *)
(* returned True, returned False, or raised.                               *)
(***************************************************************************)
B3(b) == IF b THEN "T" ELSE "F"
Not3(r) == IF r = "T" THEN "F" ELSE IF r = "F" THEN "T" ELSE "E"

\* all(...) over results evaluated in order: the first that is not True decides
RECURSIVE All3(_)
All3(rs) == IF rs = <<>> THEN "T" ELSE IF Head(rs) # "T" THEN Head(rs) ELSE All3(Tail(rs))

\* any(...) over results evaluated in order: the first that is not False decides
RECURSIVE Any3(_)
Any3(rs) == IF rs = <<>> THEN "F" ELSE IF Head(rs) # "F" THEN Head(rs) ELSE Any3(Tail(rs))

\* the characters in code-point order, for Python's comparison of strings
OrdSeq == <<NL, "!", "#", "$", "%", "&", "'", "(", ")", "*", "+", ",", "-", ".", "/">>
          \o DigitSeq \o <<":", ";", "<", "=", ">", "?", "@">> \o UpperSeq
          \o <<"[", "\\", "]", "^", "_">> \o LowerSeq \o <<"{", "|", "}", "~">>
Ord(c) == IndexOf(OrdSeq, c)

\* a < b and a <= b on strings
RECURSIVE StrLess(_, _)
StrLess(a, b) ==
    IF b = <<>> THEN FALSE
    ELSE IF a = <<>> THEN TRUE
    ELSE IF Head(a) # Head(b) THEN Ord(Head(a)) < Ord(Head(b))
    ELSE StrLess(Tail(a), Tail(b))
StrLessEq(a, b) == a = b \/ StrLess(a, b)

IsLogical(v) == v.k \in {"ANY", "NA"}

\* a == b on field values: Language.__eq__ also accepts the string of the tag
FieldEq(a, b) ==
    IF a.k = "lang" /\ b.k = "str" THEN LanguageStr(a) = b.v
    ELSE IF a.k = "str" /\ b.k = "lang" THEN LanguageStr(b) = a.v
    ELSE a = b

\* CPE._match
_match(a, b) ==
    IF IsLogical(a) THEN (IF a = ANY THEN TRUE ELSE b = NA)
    ELSE IF IsLogical(b) THEN (IF b = ANY THEN TRUE ELSE a = NA)
    ELSE FieldEq(a, b)

\* CPE.match(self, cpe, match_version)
CPEmatch(self, cpe, match_version) ==
    /\ \A a \in Range(CPEAttrs) \ {"version"} : _match(self[a], cpe[a])
    /\ (~match_version \/ _match(self.version, cpe.version))

\* VersionRange.match up to the call of wrapped.match: whether the version of the
\* target passes the range (the end is looked at only when there is no start)
RangeAdmits(t, cpe) ==
    IF cpe.version.k # "str" THEN TRUE
    ELSE IF t.start.some
         THEN (IF t.include_start THEN ~StrLess(cpe.version.v, t.start.v)
               ELSE ~StrLessEq(cpe.version.v, t.start.v))
    ELSE IF t.end.some
         THEN (IF t.include_end THEN ~StrLess(t.end.v, cpe.version.v)
               ELSE ~StrLessEq(t.end.v, cpe.version.v))
    ELSE TRUE

RECURSIVE match(_, _)
\* Testable.match(cpe) of CPE, And, Or, Negate, VersionRange and Configurations.
\* VersionRange calls wrapped.match(cpe, match_version=False), which only CPE.match
\* accepts: around any other node the call raises a TypeError
match(t, cpe) ==
    CASE t.uid = "c" -> B3(CPEmatch(t.cpe, cpe, TRUE))
      [] t.uid = "a" ->
            LET r == All3([i \in DOMAIN t.children |-> match(t.children[i], cpe)])
            IN  IF t.negate THEN Not3(r) ELSE r
      [] t.uid = "o" ->
            LET r == Any3([i \in DOMAIN t.children |-> match(t.children[i], cpe)])
            IN  IF t.negate THEN Not3(r) ELSE r
      [] t.uid = "!" -> Not3(match(t.wrapped, cpe))
      [] t.uid = "v" ->
            IF ~RangeAdmits(t, cpe) THEN "F"
            ELSE IF t.wrapped.uid = "c" THEN B3(CPEmatch(t.wrapped.cpe, cpe, FALSE))
            ELSE "E"
      [] t.uid = "C" -> Any3([i \in DOMAIN t.testable |-> match(t.testable[i], cpe)])

RECURSIVE vulnerable_cpes(_), VulnerableAll(_)

\* Testable.vulnerable_cpes with a Negate that yields what its wrapped node yields
vulnerable_cpes_through_negate(t) ==
    CASE t.uid = "c" -> <<t.cpe>>
      [] t.uid \in {"a", "o"} -> IF t.negate THEN <<>> ELSE VulnerableAll(t.children)
      [] t.uid = "!" -> vulnerable_cpes(t.wrapped)
      [] t.uid = "v" -> vulnerable_cpes(t.wrapped)
      [] t.uid = "C" -> VulnerableAll(t.testable)

\* Testable.vulnerable_cpes: the CPEs, in order
vulnerable_cpes(t) ==
    CASE t.uid = "c" -> <<t.cpe>>
      [] t.uid \in {"a", "o"} -> IF t.negate THEN <<>> ELSE VulnerableAll(t.children)
      [] t.uid = "!" -> <<>>
      [] t.uid = "v" -> vulnerable_cpes(t.wrapped)
      [] t.uid = "C" -> VulnerableAll(t.testable)

VulnerableAll(ts) ==
    IF ts = <<>> THEN <<>> ELSE vulnerable_cpes(Head(ts)) \o VulnerableAll(Tail(ts))

(***************************************************************************)
(* SpecTree: build a tree with the constructors, dump it, load the text    *)
(***************************************************************************)
MaxDepth == 2

\* the CPE leaves the trees are built from
CPESet ==
    { CPE0,
      [CPE0 EXCEPT !.part = PartOf("a"), !.vendor = AV(<<"x">>), !.version = AV(<<"1">>),
                   !.update = NA, !.lang = Language(<<"e", "n">>, <<"U", "S">>)] }

\* the start and the end of a version range: absent, or a version string
VersionBounds == {None, Some(<<"1">>)}

NoText == <<>>
NoResult == Ok(Leaf(CPE0), <<>>)

InitTreeVars ==
    /\ tree \in {Leaf(c) : c \in CPESet}
    /\ text = NoText
    /\ loaded = NoResult
    /\ tphase = "build"

IdleTree ==
    /\ tree = Leaf(CPE0)
    /\ text = NoText
    /\ loaded = NoResult
    /\ tphase = "build"

Building == tphase = "build" /\ tree.uid # "C" /\ Depth(tree) < MaxDepth

\* Negate(tree)
MkNegate ==
    /\ Building
    /\ tree' = Negate(tree)
    /\ UNCHANGED <<text, loaded, tphase>>
    /\ UNCHANGED notTree

\* VersionRange(tree, start, end, include_start, include_end), around a CPE or a
\* negated CPE as JsonDataSource._parse_config_node builds it
MkVersionRange ==
    /\ Building
    /\ tree.uid = "c" \/ (tree.uid = "!" /\ tree.wrapped.uid = "c")
    /\ \E start \in VersionBounds, end \in VersionBounds, is \in BOOLEAN, ie \in BOOLEAN :
          tree' = VersionRange(tree, start, end, is, ie)
    /\ UNCHANGED <<text, loaded, tphase>>
    /\ UNCHANGED notTree

\* And/Or over the tree alone, over the tree and one more leaf, or over no child
MkLogicalTest ==
    /\ Building
    /\ \E uid \in {"a", "o"}, negate \in BOOLEAN,
          children \in {<<>>, <<tree>>} \cup {<<tree, Leaf(c)>> : c \in CPESet} :
          tree' = LogicalTest(uid, children, negate)
    /\ UNCHANGED <<text, loaded, tphase>>
    /\ UNCHANGED notTree

\* Configurations over the tree, or over the tree and one more leaf
MkConfigurations ==
    /\ tphase = "build" /\ tree.uid # "C"
    /\ \E testable \in {<<>>, <<tree>>} \cup {<<tree, Leaf(c)>> : c \in CPESet} :
          tree' = Configurations(testable)
    /\ UNCHANGED <<text, loaded, tphase>>
    /\ UNCHANGED notTree

\* text = tree.dumps()
Dumps ==
    /\ tphase = "build"
    /\ text' = dumps(tree)
    /\ tphase' = "dumped"
    /\ UNCHANGED <<tree, loaded>>
    /\ UNCHANGED notTree

\* loaded = Testable.loads(text)
Loads ==
    /\ tphase = "dumped"
    /\ loaded' = loads(text)
    /\ tphase' = "loaded"
    /\ UNCHANGED <<tree, text>>
    /\ UNCHANGED notTree

NextTree ==
    \/ MkNegate
    \/ MkVersionRange
    \/ MkLogicalTest
    \/ MkConfigurations
    \/ Dumps
    \/ Loads

(***************************************************************************)
(* CVE records and search queries (cve.py, search.py)                      *)
(***************************************************************************)
\* the dataclass CVE; impact is None or Some([version, score]) standing for a CVSS2
\* or CVSS3 vector with that base score (in tenths); dates are epoch seconds
CVE(cve_id, published_date, last_modified_date, impact, descriptions, references, configurations) ==
    [cve_id |-> cve_id, published_date |-> published_date,
     last_modified_date |-> last_modified_date, impact |-> impact,
     descriptions |-> descriptions, references |-> references, assigner |-> None,
     configurations |-> configurations]

Description(lang, value) == [lang |-> lang, value |-> value]
Reference(url, name) == [url |-> url, name |-> name]

\* CVE.severity, as int(Severity)
severity(cve) ==
    IF ~cve.impact.some THEN 1
    ELSE IF cve.impact.v.version = 2
         THEN (IF cve.impact.v.score < 40 THEN 2
               ELSE IF cve.impact.v.score < 70 THEN 3 ELSE 4)
    ELSE IF cve.impact.v.score = 0 THEN 0
    ELSE IF cve.impact.v.score < 40 THEN 2
    ELSE IF cve.impact.v.score < 70 THEN 3
    ELSE IF cve.impact.v.score < 90 THEN 4
    ELSE 5

\* the search queries
TermQuery(query, case_sensitive) ==
    [t |-> "term", query |-> query, case_sensitive |-> case_sensitive]
AfterPublishedDateQuery(date) == [t |-> "after_published", date |-> date]
BeforePublishedDateQuery(date) == [t |-> "before_published", date |-> date]
AfterModifiedDateQuery(date) == [t |-> "after_modified", date |-> date]
BeforeModifiedDateQuery(date) == [t |-> "before_modified", date |-> date]
CPEQuery(cpe) == [t |-> "cpe", cpe |-> cpe]
AndQuery(sub_queries) == [t |-> "and", sub_queries |-> sub_queries]
OrQuery(sub_queries) == [t |-> "or", sub_queries |-> sub_queries]

IsCompoundQuery(q) == q.t \in {"and", "or"}

\* the test TermQuery.matches makes on a description or on a reference's name or url
TermIn(q, value) ==
    IF q.case_sensitive THEN Contains(value, q.query)
    ELSE Contains(Lower(value), Lower(q.query))

\* TermQuery.matches: the descriptions, the id (as written, whatever
\* case_sensitive), the references, the assigner
TermMatches(q, cve) ==
    \/ \E i \in DOMAIN cve.descriptions : TermIn(q, cve.descriptions[i].value)
    \/ Contains(cve.cve_id, q.query)
    \/ \E i \in DOMAIN cve.references :
          TermIn(q, cve.references[i].name) \/ TermIn(q, cve.references[i].url)
    \/ (cve.assigner.some /\ Contains(cve.assigner.v, q.query))

RECURSIVE matches(_, _)
\* SearchQuery.matches(cve): "T", "F" or "E" (raised).  BeforeQuery.matches
\* compares field.date(), a date, with the cut-off, a datetime: Python raises a
\* TypeError for that comparison
matches(q, cve) ==
    CASE q.t = "term" -> B3(TermMatches(q, cve))
      [] q.t = "after_published" -> B3(cve.published_date >= q.date)
      [] q.t = "after_modified" -> B3(cve.last_modified_date >= q.date)
      [] q.t \in {"before_published", "before_modified"} -> "E"
      [] q.t = "cpe" -> match(cve.configurations, q.cpe)
      [] q.t = "and" -> All3([i \in DOMAIN q.sub_queries |-> matches(q.sub_queries[i], cve)])
      [] q.t = "or" -> Any3([i \in DOMAIN q.sub_queries |-> matches(q.sub_queries[i], cve)])

\* Data.make_query for one query that is already a SearchQuery
make_query(q) == q

(***************************************************************************)
(* The store (schemas.py): tables, SchemaV0.add, SchemaV1.add, cve_iter    *)
(***************************************************************************)
\* a sequence without the elements that fail a test, in order
SelectRows(rows, Test(_)) ==
    LET idx == {i \in DOMAIN rows : Test(rows[i])}
    IN  [k \in 1..Cardinality(idx) |->
            rows[CHOOSE i \in idx : Cardinality({j \in idx : j < i}) = k - 1]]

\* INSERT OR REPLACE INTO cves: (id, feed) is the primary key, so a row with the
\* same id and feed is replaced
InsertCve(cves, row) ==
    {r \in cves : ~(r.id = row.id /\ r.feed = row.feed)} \cup {row}

\* the row SchemaV0.add writes to cves; SchemaV1.add passes configurations as an
\* extra column (None: the column is not written)
CveRow(cve, source_feed, configurations) ==
    [id |-> cve.cve_id, feed |-> source_feed, published |-> cve.published_date,
     last_modified |-> cve.last_modified_date, impact_vector |-> cve.impact,
     base_score |-> IF cve.impact.some THEN Some(cve.impact.v.score) ELSE None,
     severity |-> severity(cve), configurations |-> configurations]

\* INSERT OR REPLACE INTO descriptions, once per description of the CVE: the table
\* has no key, so every insert adds a row
InsertDescriptions(descs, cve) ==
    descs \o [i \in DOMAIN cve.descriptions |->
                [cve |-> cve.cve_id, lang |-> cve.descriptions[i].lang,
                 description |-> cve.descriptions[i].value]]

\* INSERT OR REPLACE INTO refs, once per reference: no key either
InsertRefs(refs, cve) ==
    refs \o [i \in DOMAIN cve.references |->
                [cve |-> cve.cve_id, name |-> cve.references[i].name,
                 url |-> cve.references[i].url]]

\* the values SchemaV1.add inserts into cpes for one CPE: str() of part.value,
\* vendor, product, version, update, edition, lang, sw_edition, target_sw, other
CpeCols == <<"part", "vendor", "product", "version", "update", "edition", "lang",
             "sw_edition", "target_sw", "other">>
CpeRow(cpe) == [a \in Range(CpeCols) |-> FieldStr(cpe[a])]

\* INSERT OR IGNORE INTO cpes for each vulnerable CPE, in order: the table has no
\* unique key, so nothing is ignored and lastrowid is the new row's
InsertCpes(cpes, vcpes) == cpes \o [i \in DOMAIN vcpes |-> CpeRow(vcpes[i])]

\* INSERT OR REPLACE INTO configurations (cpe, cve), cpe the rowid just inserted
InsertConfs(confs, cpes, vcpes, cve) ==
    confs \cup {[cpe |-> Len(cpes) + i, cve |-> cve.cve_id] : i \in DOMAIN vcpes}

\* SchemaV0.add(cve, source_feed): the tables afterwards
V0Add(T, cve, source_feed, configurations) ==
    [T EXCEPT !.cves = InsertCve(T.cves, CveRow(cve, source_feed, configurations)),
              !.descs = InsertDescriptions(T.descs, cve)]

\* SchemaV1.add(cve, source_feed): SchemaV0.add with the dumped configurations, then
\* the references, the vulnerable CPEs and their links
V1Add(T, cve, source_feed) ==
    LET T0 == V0Add(T, cve, source_feed, Some(dumps(cve.configurations)))
        vcpes == vulnerable_cpes(cve.configurations)
    IN  [T0 EXCEPT !.refs = InsertRefs(T.refs, cve),
                   !.cpes = InsertCpes(T.cpes, vcpes),
                   !.confs = InsertConfs(T.confs, T.cpes, vcpes, cve)]

\* Schema.add of the schema of the given version
SchemaAdd(version, T, cve, source_feed) ==
    IF version = 0 THEN V0Add(T, cve, source_feed, None) ELSE V1Add(T, cve, source_feed)

\* SchemaV0.cve_iter for one row: the CVE and whether building it raised
V0CveOf(T, row) ==
    LET ds == SelectRows(T.descs, LAMBDA d : d.cve = row.id)
    IN  [err |-> FALSE,
         cve |-> CVE(row.id, row.published, row.last_modified, row.impact_vector,
                     [i \in DOMAIN ds |-> Description(ds[i].lang, ds[i].description)],
                     <<>>, Configurations(<<>>))]

\* SchemaV1.cve_iter for one row: the configurations column is loaded with
\* Configurations.loads and the references are read from refs
V1CveOf(T, row) ==
    LET base == V0CveOf(T, row).cve
        conf == IF row.configurations.some THEN loads(row.configurations.v) ELSE Err
        rs == SelectRows(T.refs, LAMBDA r : r.cve = row.id)
    IN  IF conf.err THEN [err |-> TRUE, cve |-> base]
        ELSE [err |-> FALSE,
              cve |-> [base EXCEPT
                         !.configurations = conf.val,
                         !.references = [i \in DOMAIN rs |-> Reference(rs[i].url, rs[i].name)]]]

CveOf(version, T, row) == IF version = 0 THEN V0CveOf(T, row) ELSE V1CveOf(T, row)

(***************************************************************************)
(* The SQL where-tree (sql.py) and the query compiler (schemas.py)         *)
(***************************************************************************)
\* SimpleQuery(text): the fragment is kept as what it says, not as characters:
\*   like   "(d.description LIKE ? OR c.id LIKE ?)", both sides in UPPER() if upper
\*   cmp    "c.<col> <op> ?"
\*   feeds  "c.feed IN (?, ..., ?)" with n placeholders
\*   p_eq   "p.<attr> = ?"
SimpleQuery(sql) == [t |-> "simple", sql |-> sql]
LikeSql(upper) == [k |-> "like", upper |-> upper]
CmpSql(col, op) == [k |-> "cmp", col |-> col, op |-> op]
FeedsSql(n) == [k |-> "feeds", n |-> n]
PEqSql(attr) == [k |-> "p_eq", attr |-> attr]

\* _CPEQuery(query) and the TrueQuery TRUE
_CPEQuery(query) == [t |-> "cpe", query |-> query]
TrueQuery == [t |-> "true"]

RECURSIVE CompoundAdd(_, _, _), CompoundExtend(_, _, _)
\* CompoundQuery.add on the list of children: a TrueQuery is ignored, the children
\* of a compound with the same operand are added in its place, anything else is
\* appended (and taken from its former parent)
CompoundAdd(queries, operand, q) ==
    IF q.t = "true" THEN queries
    ELSE IF q.t = "compound" /\ q.operand = operand
         THEN CompoundExtend(queries, operand, q.queries)
    ELSE Append(queries, q)

\* CompoundQuery.extend
CompoundExtend(queries, operand, new) ==
    IF new = <<>> THEN queries
    ELSE CompoundExtend(CompoundAdd(queries, operand, Head(new)), operand, Tail(new))

\* And(*queries), Or(*queries): CompoundQuery.__init__
Compound(operand, queries) ==
    [t |-> "compound", operand |-> operand,
     queries |-> CompoundExtend(<<>>, operand, queries)]

\* CompoundQuery.create
CompoundCreate(operand, queries) ==
    IF Len(queries) = 0 THEN TrueQuery
    ELSE IF Len(queries) = 1 THEN queries[1]
    ELSE Compound(operand, queries)

\* a bound parameter: text or a number
TextParam(s) == [ty |-> "text", v |-> s]
IntParam(n) == [ty |-> "int", v |-> n]

\* f"%{query_text}%"
LikePattern(query_text) == <<"%">> \o query_text \o <<"%">>

\* Select("", "", where=..., params=...)
Select(where, params) ==
    [k |-> "select", from_tables |-> "", where |-> where, params |-> params]
NoSelect == [k |-> "none"]
Raised == [k |-> "raise"]

\* the first sub-select in order that is None or that raised, 0 when there is none
FirstFailure(subs) ==
    IF \E i \in DOMAIN subs : subs[i].k # "select"
    THEN CHOOSE i \in DOMAIN subs :
            subs[i].k # "select" /\ \A j \in 1..(i - 1) : subs[j].k = "select"
    ELSE 0

RECURSIVE ConcatAll(_)
ConcatAll(ss) == IF ss = <<>> THEN <<>> ELSE Head(ss) \o ConcatAll(Tail(ss))

RECURSIVE to_query(_, _)
\* SchemaV0.to_query and SchemaV1.to_query (version 1 translates a CPEQuery, then
\* defers to version 0, whose recursion comes back to the class's own to_query).
\* A compound with one sub-query calls cls.to_sql_clause, which no schema class
\* defines: an AttributeError
to_query(version, q) ==
    CASE q.t = "cpe" ->
            IF version = 1 THEN Select(Some(_CPEQuery(q)), <<>>) ELSE NoSelect
      [] q.t = "term" ->
            LET query_text == IF q.case_sensitive THEN q.query ELSE Upper(q.query)
            IN  Select(Some(SimpleQuery(LikeSql(~q.case_sensitive))),
                       <<TextParam(LikePattern(query_text)),
                         TextParam(LikePattern(query_text))>>)
      [] q.t = "before_published" ->
            Select(Some(SimpleQuery(CmpSql("published", "<="))), <<IntParam(q.date)>>)
      [] q.t = "before_modified" ->
            Select(Some(SimpleQuery(CmpSql("last_modified", "<="))), <<IntParam(q.date)>>)
      [] q.t = "after_published" ->
            Select(Some(SimpleQuery(CmpSql("published", ">="))), <<IntParam(q.date)>>)
      [] q.t = "after_modified" ->
            Select(Some(SimpleQuery(CmpSql("last_modified", ">="))), <<IntParam(q.date)>>)
      [] q.t \in {"and", "or"} ->
            IF Len(q.sub_queries) = 0 THEN Select(None, <<>>)
            ELSE IF Len(q.sub_queries) = 1 THEN Raised
            ELSE
              LET subs == [i \in DOMAIN q.sub_queries |-> to_query(version, q.sub_queries[i])]
                  bad == FirstFailure(subs)
                  present == SelectRows(subs, LAMBDA x : x.where.some)
                  wheres == [i \in DOMAIN present |-> present[i].where.v]
              IN  IF bad # 0 THEN (IF subs[bad].k = "none" THEN NoSelect ELSE Raised)
                  ELSE Select(Some(Compound(IF q.t = "or" THEN "OR" ELSE "AND", wheres)),
                              ConcatAll([i \in DOMAIN subs |-> subs[i].params]))
      [] OTHER -> NoSelect

RECURSIVE traverse(_)
\* Query.traverse: the node, then its children's traversals, in order
traverse(node) ==
    IF node.t = "compound"
    THEN <<node>> \o ConcatAll([i \in DOMAIN node.queries |-> traverse(node.queries[i])])
    ELSE <<node>>

RECURSIVE RemoveCpe(_)
\* remove_from_parent on every _CPEQuery that has a parent: a compound loses them
RemoveCpe(node) ==
    IF node.t = "compound"
    THEN LET kept == SelectRows(node.queries, LAMBDA x : x.t # "cpe")
         IN  [node EXCEPT !.queries = [i \in DOMAIN kept |-> RemoveCpe(kept[i])]]
    ELSE node

\* the attributes SchemaV1.finalize_query reads from a queried CPE, in its order
FinalizeAttrs == <<"part", "vendor", "product", "version", "update", "edition", "lang",
                   "sw_edition", "target_sw", "target_hw", "other">>

\* isinstance(value, str): neither a Logical, a Part nor a Language
IsStr(value) == value.k = "str"

\* the attributes of one queried CPE that get a "p.<attr> = ?" clause, in order
StrAttrs(cpe) == SelectRows(FinalizeAttrs, LAMBDA a : IsStr(cpe[a]))

\* SchemaV0.finalize_query: the join of descriptions and cves
V0Finalize(select) == [select EXCEPT !.from_tables = "d_c"]

\* SchemaV1.finalize_query: the _CPEQuery nodes leave the tree; when there were any,
\* the join grows by configurations and cpes, and every str-valued attribute of every
\* queried CPE is And-ed to the where clause, its value appended to the parameters
V1Finalize(select) ==
    LET nodes == traverse(select.where.v)
        cpe_nodes == SelectRows(nodes, LAMBDA x : x.t = "cpe")
        cpe_queries == [i \in DOMAIN cpe_nodes |-> cpe_nodes[i].query.cpe]
        stripped == RemoveCpe(select.where.v)
        attrs == ConcatAll([i \in DOMAIN cpe_queries |->
                    [j \in DOMAIN StrAttrs(cpe_queries[i]) |->
                        [attr |-> StrAttrs(cpe_queries[i])[j],
                         value |-> cpe_queries[i][StrAttrs(cpe_queries[i])[j]].v]]])
        clauses == [i \in DOMAIN attrs |-> SimpleQuery(PEqSql(attrs[i].attr))]
    IN  IF cpe_queries = <<>> THEN V0Finalize([select EXCEPT !.where = Some(stripped)])
        ELSE [select EXCEPT
                !.from_tables = "d_c_f_p",
                !.where = Some(IF attrs = <<>> THEN stripped
                               ELSE Compound("AND", <<stripped>> \o clauses)),
                !.params = @ \o [i \in DOMAIN attrs |-> TextParam(attrs[i].value)]]

finalize_query(version, select) ==
    IF version = 0 THEN V0Finalize(select) ELSE V1Finalize(select)

(***************************************************************************)
(* Running the statement: Select.to_sql and SQLite's evaluation of it      *)
(***************************************************************************)
RECURSIVE Sum(_)
Sum(ns) == IF ns = <<>> THEN 0 ELSE Head(ns) + Sum(Tail(ns))

RECURSIVE NumParams(_)
\* the number of "?" in node.to_sql()
NumParams(node) ==
    CASE node.t = "simple" ->
            (CASE node.sql.k = "like" -> 2
               [] node.sql.k = "feeds" -> node.sql.n
               [] OTHER -> 1)
      [] node.t = "compound" ->
            Sum([i \in DOMAIN node.queries |-> NumParams(node.queries[i])])
      [] OTHER -> 0

\* the cpes columns a "p.<attr>" can name: update is update_str, lang is language and
\* target_hw is not stored, so those three clauses do not compile
PColumns == {"part", "vendor", "product", "version", "edition", "sw_edition",
             "target_sw", "other"}

\* the statement cannot be built or prepared: a _CPEQuery is left in the tree (its
\* to_sql asserts False), a clause names a column cpes lacks, or the number of
\* parameters differs from the number of placeholders
SqlFails(select) ==
    LET nodes == traverse(select.where.v)
    IN  \/ \E i \in DOMAIN nodes : nodes[i].t = "cpe"
        \/ \E i \in DOMAIN nodes :
              /\ nodes[i].t = "simple"
              /\ nodes[i].sql.k = "p_eq"
              /\ nodes[i].sql.attr \notin PColumns
        \/ NumParams(select.where.v) # Len(select.params)

\* value LIKE pattern, for the patterns the compiler builds ("%text%"): LIKE ignores
\* the case of ASCII letters.  The model's texts hold no "%" or "_"
Like(value, P) ==
    IF P.ty = "int" THEN Lower(value) = IntToStr(P.v)
    ELSE IF Len(P.v) >= 2 /\ Head(P.v) = "%" /\ P.v[Len(P.v)] = "%"
         THEN Contains(Lower(value), Lower(SubSeq(P.v, 2, Len(P.v) - 1)))
    ELSE Lower(value) = Lower(P.v)

\* number <op> parameter: SQLite orders every number before every text
Cmp(n, op, P) ==
    IF P.ty = "int" THEN (IF op = "<=" THEN n <= P.v ELSE n >= P.v)
    ELSE op = "<="

RECURSIVE Holds(_, _, _)
\* the where clause on one row of the join: env.d, env.c and env.p are the rows of
\* descriptions, cves and cpes; ps are the parameters from this node's first
\* placeholder on
Holds(node, ps, env) ==
    CASE node.t = "true" -> TRUE
      [] node.t = "simple" ->
            (CASE node.sql.k = "like" ->
                    \/ Like(IF node.sql.upper THEN Upper(env.d.description)
                            ELSE env.d.description, ps[1])
                    \/ Like(IF node.sql.upper THEN Upper(env.c.id) ELSE env.c.id, ps[2])
               [] node.sql.k = "cmp" -> Cmp(env.c[node.sql.col], node.sql.op, ps[1])
               [] node.sql.k = "feeds" ->
                    \E i \in 1..node.sql.n : ps[i].ty = "int" /\ ps[i].v = env.c.feed
               [] node.sql.k = "p_eq" ->
                    IF ps[1].ty = "int" THEN env.p[node.sql.attr] = IntToStr(ps[1].v)
                    ELSE env.p[node.sql.attr] = ps[1].v)
      [] node.t = "compound" ->
            LET Sub(i) ==
                  Holds(node.queries[i],
                        Drop(ps, Sum([j \in 1..(i - 1) |-> NumParams(node.queries[j])])),
                        env)
            IN  IF node.queries = <<>> THEN TRUE
                ELSE IF node.operand = "AND" THEN \A i \in DOMAIN node.queries : Sub(i)
                ELSE \E i \in DOMAIN node.queries : Sub(i)

\* the rows "SELECT DISTINCT c.* FROM <join> WHERE <where>" returns
SelectedRows(T, select) ==
    {c \in T.cves :
        \E i \in DOMAIN T.descs :
            /\ T.descs[i].cve = c.id
            /\ IF select.from_tables = "d_c_f_p"
               THEN \E f \in T.confs :
                        /\ f.cve = c.id
                        /\ f.cpe \in DOMAIN T.cpes
                        /\ Holds(select.where.v, select.params,
                                 [d |-> T.descs[i], c |-> c, p |-> T.cpes[f.cpe]])
               ELSE Holds(select.where.v, select.params,
                          [d |-> T.descs[i], c |-> c, p |-> <<>>])}

\* what a search gave: whether it raised, and the (id, feed) of the CVEs it yielded
Outcome(raised, rows) == [raised |-> raised, rows |-> {<<r.id, r.feed>> : r \in rows}]

\* the Select of SchemaV0.search with the feed ids bound before the parameters of
\* the query
ExecutedSelectFeedsFirst(version, q, feeds) ==
    LET select == to_query(version, make_query(q))
        feeds_where_clause == SimpleQuery(FeedsSql(Len(feeds)))
        params == [i \in DOMAIN feeds |-> IntParam(feeds[i])]
        with_feeds ==
            IF ~select.where.some
            THEN [select EXCEPT !.where = Some(feeds_where_clause), !.params = params]
            ELSE [select EXCEPT
                    !.where = Some(Compound("AND", <<select.where.v, feeds_where_clause>>)),
                    !.params = params \o @]
    IN  IF select.k # "select" THEN select ELSE finalize_query(version, with_feeds)

\* the Select that SchemaV0.search hands to execute: the compiled query, And-ed with
\* the feeds clause and finalized; None or the exception when to_query gave those
ExecutedSelect(version, q, feeds) ==
    LET select == to_query(version, make_query(q))
        feeds_where_clause == SimpleQuery(FeedsSql(Len(feeds)))
        params == [i \in DOMAIN feeds |-> IntParam(feeds[i])]
        with_feeds ==
            IF ~select.where.some
            THEN [select EXCEPT !.where = Some(feeds_where_clause), !.params = params]
            ELSE [select EXCEPT
                    !.where = Some(Compound("AND", <<select.where.v, feeds_where_clause>>)),
                    !.params = @ \o params]
    IN  IF select.k # "select" THEN select ELSE finalize_query(version, with_feeds)

RECURSIVE Placeholders(_)
\* the "?" of node.to_sql() in the order of the text, each with the clause it
\* stands in
Placeholders(node) ==
    CASE node.t = "simple" ->
            (CASE node.sql.k = "like" -> <<node.sql, node.sql>>
               [] node.sql.k = "feeds" -> [i \in 1..node.sql.n |-> node.sql]
               [] OTHER -> <<node.sql>>)
      [] node.t = "compound" ->
            ConcatAll([i \in DOMAIN node.queries |-> Placeholders(node.queries[i])])
      [] OTHER -> <<>>

\* SchemaV0.search(query, db_data): compile, add the feeds clause, finalize, run,
\* rebuild each row's CVE and keep those the query matches.  The order of the
\* yielded CVEs is left out
search(version, T, q, feeds) ==
    LET query == make_query(q)
        select == to_query(version, query)
        final == ExecutedSelect(version, q, feeds)
        rows == SelectedRows(T, final)
        Test(r) == matches(query, CveOf(version, T, r).cve)
    IN  IF select.k # "select" THEN Outcome(TRUE, {})
        ELSE IF SqlFails(final) THEN Outcome(TRUE, {})
        ELSE Outcome(\E r \in rows : CveOf(version, T, r).err \/ Test(r) = "E",
                     {r \in rows : ~CveOf(version, T, r).err /\ Test(r) = "T"})

\* the in-memory filter over the stored CVEs of the session's feeds: Data.search
\* without the sort
InMemorySearch(version, T, q, feeds) ==
    LET query == make_query(q)
        rows == {r \in T.cves : \E i \in DOMAIN feeds : feeds[i] = r.feed}
        Test(r) == matches(query, CveOf(version, T, r).cve)
    IN  Outcome(\E r \in rows : CveOf(version, T, r).err \/ Test(r) = "E",
                {r \in rows : ~CveOf(version, T, r).err /\ Test(r) = "T"})

(***************************************************************************)
(* SpecSchema: one store, CVEs added to it and searches run on it           *)
(***************************************************************************)
\* how many Schema.add calls a behaviour makes
MaxAdds == 2

CpeX == [CPE0 EXCEPT !.part = PartOf("a"), !.vendor = AV(<<"x">>)]
CpeX1 == [CpeX EXCEPT !.version = AV(<<"1">>)]

\* the CVEs a feed delivers: one with a description and a vulnerable CPE, one with
\* a reference and no description, one with two descriptions and a tree
CveA ==
    CVE(<<"A", "1">>, 1, 2, None, <<Description(<<"e", "n">>, <<"a", "b">>)>>, <<>>,
        Configurations(<<Leaf(CpeX1)>>))
CveB ==
    CVE(<<"B", "2">>, 2, 2, Some([version |-> 3, score |-> 75]), <<>>,
        <<Reference(<<"u">>, <<"n">>)>>, Configurations(<<>>))
CveC ==
    CVE(<<"C", "3">>, 3, 4, Some([version |-> 2, score |-> 50]),
        <<Description(<<"e", "n">>, <<"B", "c">>), Description(<<"e", "s">>, <<"c">>)>>,
        <<>>,
        Configurations(<<LogicalTest("o", <<Leaf(CpeX), Negate(Leaf(CPE0))>>, FALSE)>>))
CVESet == {CveA, CveB, CveC}

FeedIds == {1, 2}

\* the feeds of a session, as CVEdbData.feeds lists them
SessionFeeds == {<<1>>, <<1, 2>>}

SimpleQueries ==
    { TermQuery(<<"b">>, FALSE), TermQuery(<<"B">>, TRUE), TermQuery(<<"A", "1">>, TRUE),
      AfterPublishedDateQuery(2), AfterModifiedDateQuery(3), BeforePublishedDateQuery(2),
      CPEQuery(CpeX1), CPEQuery(CPE0) }

QuerySet ==
    SimpleQueries \cup
    { AndQuery(<<>>), AndQuery(<<TermQuery(<<"b">>, FALSE)>>),
      AndQuery(<<TermQuery(<<"c">>, FALSE), AfterPublishedDateQuery(2)>>),
      OrQuery(<<TermQuery(<<"b">>, FALSE), CPEQuery(CpeX1)>>),
      OrQuery(<<AfterModifiedDateQuery(3), TermQuery(<<"A">>, TRUE)>>),
      AndQuery(<<CPEQuery(CpeX), OrQuery(<<TermQuery(<<"b">>, FALSE),
                                            AfterPublishedDateQuery(3)>>)>>) }

\* the tables as one record
Tables == [cves |-> scves, descs |-> sdescs, refs |-> srefs, cpes |-> scpes, confs |-> sconfs]

NoOp == [op |-> "none"]

InitSchemaVars ==
    /\ sversion \in {0, 1}
    /\ scves = {}
    /\ sdescs = <<>>
    /\ srefs = <<>>
    /\ scpes = <<>>
    /\ sconfs = {}
    /\ sadds = 0
    /\ sop = NoOp

IdleSchema ==
    /\ sversion = 0
    /\ scves = {}
    /\ sdescs = <<>>
    /\ srefs = <<>>
    /\ scpes = <<>>
    /\ sconfs = {}
    /\ sadds = 0
    /\ sop = NoOp

\* schema.add(cve, source_feed)
Add(cve, source_feed) ==
    /\ sadds < MaxAdds
    /\ LET T == SchemaAdd(sversion, Tables, cve, source_feed)
       IN  /\ scves' = T.cves
           /\ sdescs' = T.descs
           /\ srefs' = T.refs
           /\ scpes' = T.cpes
           /\ sconfs' = T.confs
    /\ sadds' = sadds + 1
    /\ sop' = [op |-> "add", cve |-> cve, feed |-> source_feed]
    /\ UNCHANGED sversion
    /\ UNCHANGED notSchema

\* list(schema.search(q, db_data=data)) for a session over the given feeds
Search(q, feeds) ==
    /\ sop' = [op |-> "search", q |-> q, feeds |-> feeds,
               select |-> ExecutedSelect(sversion, q, feeds),
               out |-> search(sversion, Tables, q, feeds)]
    /\ UNCHANGED <<sversion, scves, sdescs, srefs, scpes, sconfs, sadds>>
    /\ UNCHANGED notSchema

NextSchema ==
    \/ \E cve \in CVESet, f \in FeedIds : Add(cve, f)
    \/ \E q \in QuerySet, feeds \in SessionFeeds : Search(q, feeds)

(***************************************************************************)
(* Time and staleness (feed.py, db.py)                                     *)
(***************************************************************************)
\* the clock's resolution: time.time() and datetime.timestamp() are floats, so the
\* model counts in fractions of a second
TicksPerSecond == 2

MAX_DATA_AGE_SECONDS == 86400
UPDATE_INTERVAL_SECONDS == MAX_DATA_AGE_SECONDS

Seconds(n) == n * TicksPerSecond

\* int(t): the whole seconds of a time
IntOf(t) == (t \div TicksPerSecond) * TicksPerSecond

\* Feed.is_out_of_date with > in place of >=
is_out_of_date_strict(last_modified, t) ==
    \/ ~last_modified.some
    \/ IntOf(t) - last_modified.v > Seconds(MAX_DATA_AGE_SECONDS)

\* Feed.is_out_of_date, given what self.last_modified() returns
is_out_of_date(last_modified, t) ==
    \/ ~last_modified.some
    \/ IntOf(t) - last_modified.v >= Seconds(MAX_DATA_AGE_SECONDS)

(***************************************************************************)
(* The database-backed feed (db.py)                                        *)
(***************************************************************************)
\* the store as one record
Store == [feeds |-> dfeeds, cves |-> dcves, descs |-> ddescs]

\* DbBackedFeed.last_modified and last_checked: the feed's row, None when NULL
DbLastModified(S, f) == S.feeds[f].last_modified
DbLastChecked(S, f) == S.feeds[f].last_checked

\* DbBackedFeed.is_out_of_date without its look at last_checked: Feed.is_out_of_date
DbIsOutOfDateUnchecked(S, f, t) == is_out_of_date(DbLastModified(S, f), t)

\* DbBackedFeed.is_out_of_date
DbIsOutOfDate(S, f, t) ==
    IF /\ DbLastChecked(S, f).some
       /\ t - DbLastChecked(S, f).v < Seconds(UPDATE_INTERVAL_SECONDS)
    THEN FALSE
    ELSE is_out_of_date(DbLastModified(S, f), t)

\* DbBackedFeed.add: the cves row replaces the one with the same (id, feed); every
\* description is inserted (descriptions has no key)
DbAdd(S, f, cve) ==
    [S EXCEPT
        !.cves = InsertCve(@, [id |-> cve.cve_id, feed |-> f,
                               published |-> cve.published_date,
                               last_modified |-> cve.last_modified_date,
                               impact_vector |-> cve.impact]),
        !.descs = InsertDescriptions(@, cve)]

RECURSIVE DbAddAll(_, _, _)
DbAddAll(S, f, cves) ==
    IF cves = <<>> THEN S ELSE DbAddAll(DbAdd(S, f, Head(cves)), f, Tail(cves))

\* what the parent's server holds when it is asked: the meta cannot be fetched; the
\* meta is fetched and the gz download fails; or both are served.  A meta's
\* lastModifiedDate is parsed by isoparse: with a UTC offset the datetime is aware,
\* without one it is naive.  fail_at = k > 0: upserting the k-th CVE raises
MetaFail == [k |-> "meta_fail"]
GzFail(meta) == [k |-> "gz_fail", meta |-> meta]
Served(meta, cves, fail_at) == [k |-> "ok", meta |-> meta, cves |-> cves, fail_at |-> fail_at]
Meta(last_modified_date, aware) == [last_modified_date |-> last_modified_date, aware |-> aware]

\* JsonFeed.reload(existing_data): existing_data is None or a CVEdbData, whose
\* last_modified_date came from datetime.fromtimestamp and is naive; comparing an
\* aware datetime with it raises TypeError
JsonFeedReload(existing_data, inp) ==
    IF inp.k = "meta_fail" THEN [k |-> "raise", why |-> "meta", downloaded |-> FALSE]
    ELSE IF existing_data.some /\ existing_data.v.last_modified_date.some
         THEN IF inp.meta.aware THEN [k |-> "raise", why |-> "compare", downloaded |-> FALSE]
              ELSE IF inp.meta.last_modified_date <= existing_data.v.last_modified_date.v
                   THEN [k |-> "existing", downloaded |-> FALSE]
              ELSE IF inp.k = "gz_fail" THEN [k |-> "raise", why |-> "gz", downloaded |-> TRUE]
              ELSE [k |-> "new", downloaded |-> TRUE]
    ELSE IF inp.k = "gz_fail" THEN [k |-> "raise", why |-> "gz", downloaded |-> TRUE]
    ELSE [k |-> "new", downloaded |-> TRUE]

\* DbBackedFeed.reload with the values of its two UPDATEs exchanged when the parent
\* gave new data
DbBackedFeedReloadSwappedStamps(S, f, existing_data, t, inp) ==
    LET r == JsonFeedReload(existing_data, inp)
        checked == [S EXCEPT !.feeds[f].last_checked = Some(t)]
        stamped == [[checked EXCEPT !.feeds[f].last_checked =
                                    Some(inp.meta.last_modified_date)] EXCEPT
                      !.feeds[f].last_modified = Some(t)]
        Result(S2, raised, probed, add_failed) ==
            [S |-> S2, raised |-> raised, probed |-> probed,
             downloaded |-> probed /\ r.downloaded, add_failed |-> add_failed,
             fetch_failed |-> probed /\ r.k = "raise" /\ r.why \in {"meta", "gz"}]
    IN  IF existing_data.some /\ ~DbIsOutOfDate(S, f, t)
        THEN Result(S, FALSE, FALSE, FALSE)
        ELSE IF r.k = "raise" THEN Result(S, TRUE, TRUE, FALSE)
        ELSE IF r.k = "existing" THEN Result(checked, FALSE, TRUE, FALSE)
        ELSE IF inp.fail_at = 0 THEN Result(DbAddAll(stamped, f, inp.cves), FALSE, TRUE, FALSE)
        ELSE IF inp.fail_at = 1 THEN Result(S, TRUE, TRUE, TRUE)
        ELSE Result(DbAddAll(stamped, f, Take(inp.cves, inp.fail_at - 1)), TRUE, TRUE, TRUE)

\* DbBackedFeed.reload(existing_data) at time t: the store afterwards, whether it
\* raised, whether the parent was asked (probed), whether the gz was requested, and
\* whether an upsert failed.  Every "with self.connection" commits when it ends, so
\* each add that returns commits all that is pending, the two UPDATEs included; an
\* add that raises rolls back what is pending
DbBackedFeedReload(S, f, existing_data, t, inp) ==
    LET r == JsonFeedReload(existing_data, inp)
        checked == [S EXCEPT !.feeds[f].last_checked = Some(t)]
        stamped == [checked EXCEPT
                      !.feeds[f].last_modified = Some(inp.meta.last_modified_date)]
        Result(S2, raised, probed, add_failed) ==
            [S |-> S2, raised |-> raised, probed |-> probed,
             downloaded |-> probed /\ r.downloaded, add_failed |-> add_failed,
             fetch_failed |-> probed /\ r.k = "raise" /\ r.why \in {"meta", "gz"}]
    IN  IF existing_data.some /\ ~DbIsOutOfDate(S, f, t)
        THEN Result(S, FALSE, FALSE, FALSE)
        ELSE IF r.k = "raise" THEN Result(S, TRUE, TRUE, FALSE)
        ELSE IF r.k = "existing" THEN Result(checked, FALSE, TRUE, FALSE)
        ELSE IF inp.fail_at = 0 THEN Result(DbAddAll(stamped, f, inp.cves), FALSE, TRUE, FALSE)
        ELSE IF inp.fail_at = 1 THEN Result(S, TRUE, TRUE, TRUE)
        ELSE Result(DbAddAll(stamped, f, Take(inp.cves, inp.fail_at - 1)), TRUE, TRUE, TRUE)

\* DbBackedFeed.data(): a CVEdbData over the feed, its last_modified_date read now
DbData(S, f) == Some([last_modified_date |-> DbLastModified(S, f)])

\* CVEdbDataSource.cve_iter for one row: the descriptions of every row of
\* descriptions with the CVE's id; no references, no assigner, no configurations
DbCveOf(S, row) ==
    LET ds == SelectRows(S.descs, LAMBDA d : d.cve = row.id)
    IN  CVE(row.id, row.published, row.last_modified, row.impact_vector,
            [i \in DOMAIN ds |-> Description(ds[i].lang, ds[i].description)],
            <<>>, Configurations(<<>>))

NoClause == [some |-> FALSE]
Clause(sql, params) == [some |-> TRUE, sql |-> sql, params |-> params]

RECURSIVE _to_sql_clause(_)
\* CVEdbData._to_sql_clause: None, or the clause (as a tree: a LIKE on
\* d.description, true, false, or a parenthesised AND / OR) and its parameters
_to_sql_clause(q) ==
    CASE q.t = "term" ->
            Clause([k |-> "like", upper |-> ~q.case_sensitive],
                   <<LikePattern(IF q.case_sensitive THEN q.query ELSE Upper(q.query))>>)
      [] q.t \in {"and", "or"} ->
            IF Len(q.sub_queries) = 0
            THEN Clause([k |-> IF q.t = "or" THEN "false" ELSE "true"], <<>>)
            ELSE IF Len(q.sub_queries) = 1 THEN _to_sql_clause(q.sub_queries[1])
            ELSE LET subs == [i \in DOMAIN q.sub_queries |-> _to_sql_clause(q.sub_queries[i])]
                 IN  IF \E i \in DOMAIN subs : ~subs[i].some THEN NoClause
                     ELSE Clause([k |-> q.t, subs |-> [i \in DOMAIN subs |-> subs[i].sql]],
                                 ConcatAll([i \in DOMAIN subs |-> subs[i].params]))
      [] OTHER -> NoClause

RECURSIVE ClauseParams(_)
ClauseParams(sql) ==
    CASE sql.k = "like" -> 1
      [] sql.k \in {"and", "or"} -> Sum([i \in DOMAIN sql.subs |-> ClauseParams(sql.subs[i])])
      [] OTHER -> 0

RECURSIVE ClauseHolds(_, _, _)
\* the clause on one row d of descriptions
ClauseHolds(sql, ps, d) ==
    CASE sql.k = "like" ->
            Like(IF sql.upper THEN Upper(d.description) ELSE d.description, TextParam(ps[1]))
      [] sql.k = "true" -> TRUE
      [] sql.k = "false" -> FALSE
      [] sql.k \in {"and", "or"} ->
            LET Sub(i) ==
                  ClauseHolds(sql.subs[i],
                              Drop(ps, Sum([j \in 1..(i - 1) |-> ClauseParams(sql.subs[j])])), d)
            IN  IF sql.k = "and" THEN \A i \in DOMAIN sql.subs : Sub(i)
                ELSE \E i \in DOMAIN sql.subs : Sub(i)

\* CVEdbData.search(query) over the session's feeds.  The method is a generator:
\* when the query has no clause, "return super().search(query)" ends it, and the
\* caller receives no CVE at all; otherwise the rows of the join are yielded
DbSearch(S, q, feeds) ==
    LET query == make_query(q)
        clause == _to_sql_clause(query)
        rows == {c \in S.cves :
                    /\ \E i \in DOMAIN feeds : feeds[i] = c.feed
                    /\ \E i \in DOMAIN S.descs :
                          /\ S.descs[i].cve = c.id
                          /\ ClauseHolds(clause.sql, clause.params, S.descs[i])}
    IN  IF ~clause.some THEN Outcome(FALSE, {}) ELSE Outcome(FALSE, rows)

\* Data.search over the CVEs the data iterates: the in-memory filter
DbInMemorySearch(S, q, feeds) ==
    LET query == make_query(q)
        rows == {c \in S.cves : \E i \in DOMAIN feeds : feeds[i] = c.feed}
    IN  Outcome(\E r \in rows : matches(query, DbCveOf(S, r)) = "E",
                {r \in rows : matches(query, DbCveOf(S, r)) = "T"})

(***************************************************************************)
(* SpecDb: the database-backed feeds of one session over time              *)
(***************************************************************************)
\* how often the clock is advanced and how many operations a behaviour starts
MaxAdvances == 2
MaxOps == 2

DbFeeds == {1, 2}

\* CVEdbData.feeds: the data of one DbBackedFeed, or of a CVEdb over both
DbSessions == {<<1>>, <<1, 2>>}

\* the clock starts three days into the epoch; a meta is dated a day in or just
\* before the start
StartTime == Seconds(3 * MAX_DATA_AGE_SECONDS)
MetaDates == {Seconds(MAX_DATA_AGE_SECONDS) + 1, StartTime - 1}
Metas == {Meta(d, aware) : d \in MetaDates, aware \in BOOLEAN}

\* the clock moves by a tick or by a tick less than the update interval
AdvanceSteps == {1, Seconds(UPDATE_INTERVAL_SECONDS) - 1}

\* the CVEs a served feed holds
FeedItems == <<CveA, CveC>>

\* the parent's answers: no meta; a meta without the gz; a meta and the gz, upserted
\* in full; a meta and the gz with the upsert of the k-th CVE failing
ParentInputs ==
    {MetaFail} \cup {GzFail(Meta(d, FALSE)) : d \in MetaDates}
    \cup {Served(m, FeedItems, 0) : m \in Metas}
    \cup {Served(Meta(StartTime - 1, FALSE), FeedItems, k) : k \in 1..Len(FeedItems)}

DbQueries ==
    { TermQuery(<<"b">>, FALSE), AfterPublishedDateQuery(2), OrQuery(<<>>),
      AndQuery(<<TermQuery(<<"c">>, TRUE)>>),
      AndQuery(<<TermQuery(<<"b">>, FALSE), TermQuery(<<"c">>, FALSE)>>),
      OrQuery(<<TermQuery(<<"a">>, TRUE), AfterModifiedDateQuery(3)>>) }

NoSession == [phase |-> "idle"]
NoEval == [f \in DbFeeds |-> None]

InitClock ==
    /\ now = StartTime
    /\ nadv = 0

InitDbVars ==
    /\ dfeeds = [f \in DbFeeds |-> [last_modified |-> None, last_checked |-> None]]
    /\ dcves = {}
    /\ ddescs = <<>>
    /\ evalAt = NoEval
    /\ dops = 0
    /\ dlast = NoOp
    /\ dsess = NoSession

\* time.time() moves on
Advance(d) ==
    /\ nadv < MaxAdvances
    /\ nadv' = nadv + 1
    /\ now' = now + d
    /\ UNCHANGED notClock

\* what iteration or len gives once the reload is through: iteration the rows of
\* the session's feeds, len the COUNT(*) of cves
SessionResult(trigger, S, feeds) ==
    LET rows == {c \in S.cves : \E i \in DOMAIN feeds : feeds[i] = c.feed}
    IN  IF trigger = "len" THEN [count |-> Cardinality(S.cves), rows |-> {}]
        ELSE [count |-> Cardinality(rows), rows |-> {<<r.id, r.feed>> : r \in rows}]

\* the record of one DbBackedFeed.reload
ReloadOp(f, existing_data, inp, r) ==
    [op |-> "feed_reload", f |-> f, at |-> now, existing_data |-> existing_data,
     inp |-> inp, pre |-> Store, raised |-> r.raised, probed |-> r.probed,
     downloaded |-> r.downloaded, add_failed |-> r.add_failed,
     fetch_failed |-> r.fetch_failed]

\* the store and the evaluation times after a DbBackedFeed.reload
ReloadEffect(f, r) ==
    /\ dfeeds' = r.S.feeds
    /\ dcves' = r.S.cves
    /\ ddescs' = r.S.descs
    /\ evalAt' = IF r.probed /\ ~r.raised THEN [evalAt EXCEPT ![f] = Some(now)] ELSE evalAt

\* iter(data) or len(data) on a CVEdbData: CVEdbData.reload first lists the feeds
\* that are out of date; with none, the result is read at once
SessionBegin(trigger, feeds) ==
    /\ dsess.phase # "running"
    /\ dops < MaxOps
    /\ dops' = dops + 1
    /\ LET out == SelectRows(feeds, LAMBDA f : DbIsOutOfDate(Store, f, now))
       IN  dsess' = [phase |-> IF out = <<>> THEN "done" ELSE "running",
                     trigger |-> trigger, feeds |-> feeds, at |-> now,
                     evalBegin |-> evalAt, out_of_date |-> out, queue |-> out,
                     reloaded |-> <<>>, probed |-> {}, fetch_failed |-> {},
                     raised |-> FALSE,
                     result |-> IF out = <<>> THEN SessionResult(trigger, Store, feeds)
                                ELSE SessionResult("len", [cves |-> {}], feeds)]
    /\ dlast' = [op |-> "session_begin"]
    /\ UNCHANGED <<dfeeds, dcves, ddescs, evalAt>>
    /\ UNCHANGED clockVars
    /\ UNCHANGED notDb

\* the next feed of CVEdbData.reload's loop: feed.reload(feed.data()).  An
\* exception leaves the loop and the operation; after the last feed the result is
\* read
SessionStep(inp) ==
    /\ dsess.phase = "running"
    /\ LET f == Head(dsess.queue)
           existing_data == DbData(Store, f)
           r == DbBackedFeedReload(Store, f, existing_data, now, inp)
           rest == Tail(dsess.queue)
           probed == IF r.probed THEN dsess.probed \cup {f} ELSE dsess.probed
       IN  /\ ReloadEffect(f, r)
           /\ dlast' = ReloadOp(f, existing_data, inp, r)
           /\ dsess' = IF r.raised
                       THEN [dsess EXCEPT
                               !.phase = "done", !.raised = TRUE, !.queue = rest,
                               !.probed = probed,
                               !.fetch_failed = IF r.fetch_failed THEN @ \cup {f} ELSE @]
                       ELSE [dsess EXCEPT
                               !.phase = IF rest = <<>> THEN "done" ELSE "running",
                               !.queue = rest,
                               !.probed = probed,
                               !.reloaded = Append(@, f),
                               !.result = IF rest = <<>>
                                          THEN SessionResult(dsess.trigger, r.S, dsess.feeds)
                                          ELSE @]
    /\ UNCHANGED dops
    /\ UNCHANGED clockVars
    /\ UNCHANGED notDb

\* list(data.search(q)) on a CVEdbData over the given feeds
DataSearch(q, feeds) ==
    /\ dsess.phase # "running"
    /\ dops < MaxOps
    /\ dops' = dops + 1
    /\ dlast' = [op |-> "search", q |-> q, feeds |-> feeds, out |-> DbSearch(Store, q, feeds)]
    /\ UNCHANGED <<dfeeds, dcves, ddescs, evalAt, dsess>>
    /\ UNCHANGED clockVars
    /\ UNCHANGED notDb

NextDb ==
    \/ \E d \in AdvanceSteps : Advance(d)
    \/ \E trigger \in {"iter", "len"}, feeds \in DbSessions : SessionBegin(trigger, feeds)
    \/ \E inp \in ParentInputs : SessionStep(inp)
    \/ \E q \in DbQueries, feeds \in DbSessions : DataSearch(q, feeds)

(***************************************************************************)
(* SpecFeed: a plain Feed over time (feed.py)                               *)
(***************************************************************************)
\* DataSource(last_modified_date) with its CVEs, as InMemoryData.load keeps them
InMemoryData(last_modified_date, cves) ==
    [last_modified_date |-> last_modified_date, cves |-> cves]

\* Feed.last_modified
FeedLastModified(data) ==
    IF data.some THEN Some(data.v.last_modified_date) ELSE None

\* the dates of the data a feed is built with or reloads to: a day before the
\* clock's start, give or take a tick, and the start itself
FeedDates ==
    {StartTime - Seconds(MAX_DATA_AGE_SECONDS) + d : d \in {0, 1, 2}} \cup {StartTime}

\* what a data source yields when iterated: the ids of its CVEs, in order
FeedYields == {<<>>, <<CveA.cve_id>>, <<CveA.cve_id, CveB.cve_id>>}

\* DataSource(last_modified_date) with the CVEs its __iter__ yields
DataSource(last_modified_date, yields) ==
    [last_modified_date |-> last_modified_date, yields |-> yields]

\* InMemoryData.load with the source's CVEs left out
InMemoryDataLoadEmpty(source) == InMemoryData(source.last_modified_date, {})

\* InMemoryData.load(source): InMemoryData(source.last_modified_date, source), whose
\* __init__ keeps frozenset(cves)
InMemoryDataLoad(source) == InMemoryData(source.last_modified_date, Range(source.yields))

\* what the subclass's reload does when asked: raise, or return a data source
FeedReloads ==
    {[k |-> "raise"]} \cup
    {[k |-> "ok", source |-> DataSource(d, ys)] : d \in FeedDates, ys \in FeedYields}

\* Feed(name, initial_data)
InitFeedVars ==
    /\ fdata \in {None} \cup {Some(InMemoryData(d, {})) : d \in FeedDates}
    /\ flast = NoOp

IdleFeed ==
    /\ fdata = None
    /\ flast = NoOp

\* feed.is_out_of_date()
IsOutOfDate ==
    /\ flast' = [op |-> "is_out_of_date", at |-> now,
                 result |-> is_out_of_date(FeedLastModified(fdata), now)]
    /\ UNCHANGED fdata
    /\ UNCHANGED clockVars
    /\ UNCHANGED notFeed

\* feed.data(force_reload): when forced or out of date, call reload(self._data) and
\* keep what InMemoryData.load makes of the source it returns; return _data.  An
\* exception of reload leaves data() with _data as it was
FeedData(force_reload, reload) ==
    LET out_of_date == is_out_of_date(FeedLastModified(fdata), now)
        called == force_reload \/ out_of_date
    IN  /\ fdata' = IF called /\ reload.k = "ok" THEN Some(InMemoryDataLoad(reload.source))
                     ELSE fdata
        /\ flast' = [op |-> "data", at |-> now, force_reload |-> force_reload,
                     out_of_date |-> out_of_date, cached |-> fdata,
                     reload_calls |-> IF called THEN <<fdata>> ELSE <<>>,
                     reload |-> reload,
                     raised |-> called /\ reload.k = "raise",
                     returned |-> fdata']
        /\ UNCHANGED clockVars
        /\ UNCHANGED notFeed

NextFeed ==
    \/ \E d \in AdvanceSteps : Advance(d)
    \/ IsOutOfDate
    \/ \E force_reload \in BOOLEAN, reload \in FeedReloads : FeedData(force_reload, reload)

(***************************************************************************)
(* SpecCtx: enter and exit on one CVEdbContext (db.py)                      *)
(***************************************************************************)
\* how deep the enters nest and how many calls a behaviour makes
MaxEntries == 3
MaxCtxOps == 12

\* CVEdbContext.__init__
InitCtxVars ==
    /\ centries = 0
    /\ cconn = None
    /\ cdb = None
    /\ copened = 0
    /\ cstack = <<>>
    /\ cops = 0
    /\ clast = NoOp

\* CVEdbContext.__enter__: _entries is incremented first; with _db set, it is
\* returned; otherwise a connection is opened (the copened+1-th) and a new CVEdb
\* over it is returned.  Nothing assigns _db.  connect_fails: sqlite3.connect
\* raises (the file cannot be opened); the exception leaves __enter__, the with
\* block does not run and __exit__ is not called for this enter.  cstack holds
\* the sessions of the enters that returned and have not exited
Enter(connect_fails) ==
    /\ centries < MaxEntries
    /\ cops < MaxCtxOps
    /\ cops' = cops + 1
    /\ centries' = centries + 1
    /\ IF cdb.some
       THEN /\ cstack' = Append(cstack, cdb.v)
            /\ clast' = [op |-> "enter", outermost |-> centries = 0, opened |-> FALSE,
                         raised |-> FALSE, entries |-> centries, returned |-> cdb.v]
            /\ UNCHANGED <<cconn, copened>>
       ELSE IF connect_fails
       THEN /\ clast' = [op |-> "enter", outermost |-> centries = 0, opened |-> FALSE,
                         raised |-> TRUE, entries |-> centries,
                         returned |-> [conn |-> 0]]
            /\ UNCHANGED <<cconn, copened, cstack>>
       ELSE LET db == [conn |-> copened + 1]
            IN  /\ copened' = copened + 1
                /\ cconn' = Some(copened + 1)
                /\ cstack' = Append(cstack, db)
                /\ clast' = [op |-> "enter", outermost |-> centries = 0, opened |-> TRUE,
                             raised |-> FALSE, entries |-> centries, returned |-> db]
    /\ UNCHANGED cdb
    /\ UNCHANGED notCtx

\* CVEdbContext.__exit__(exc_type, ...), for an enter that has not exited: at
\* _entries = 0 the connection in _connection commits, or rolls back when exiting
\* with an exception, and _connection and _db are cleared
Exit(exc) ==
    /\ Len(cstack) > 0
    /\ cops < MaxCtxOps
    /\ cops' = cops + 1
    /\ centries' = centries - 1
    /\ cstack' = Take(cstack, Len(cstack) - 1)
    /\ IF centries - 1 = 0
       THEN /\ clast' = [op |-> "exit", outermost |-> TRUE, exc |-> exc,
                         first |-> cstack[1],
                         committed |-> IF exc THEN None ELSE cconn,
                         rolled_back |-> IF exc THEN cconn ELSE None]
            /\ cconn' = None
            /\ cdb' = None
       ELSE /\ clast' = [op |-> "exit", outermost |-> FALSE, exc |-> exc,
                         first |-> cstack[1], committed |-> None, rolled_back |-> None]
            /\ UNCHANGED <<cconn, cdb>>
    /\ UNCHANGED copened
    /\ UNCHANGED notCtx

NextCtx ==
    \/ \E connect_fails \in BOOLEAN : Enter(connect_fails)
    \/ \E exc \in BOOLEAN : Exit(exc)

(***************************************************************************)
(* SpecMatch: CPE.match and VersionRange.match on pairs of CPEs (cpe.py)   *)
(***************************************************************************)
\* the values the fields of the matching CPE and of the target CPE take
SelfValues ==
    [vendor |-> {ANY, NA, AV(<<"x">>)},
     version |-> {ANY, NA, AV(<<"2">>)},
     lang |-> {ANY, NA, Language(<<"e", "n">>, <<>>)}]

TargetValues ==
    [vendor |-> {ANY, NA, AV(<<"x">>), AV(<<"y">>)},
     version |-> {ANY, NA, AV(<<"1">>), AV(<<"2">>), AV(<<"3">>)},
     lang |-> {ANY, NA, Language(<<"e", "n">>, <<>>)}]

\* the start and the end of the ranges matched
RangeBounds == {None, Some(<<"2">>)}

InitMatchVars ==
    /\ ma = CPE0
    /\ mb = CPE0
    /\ mlast = NoOp

\* dataclasses.replace(self, attr=v) on the matching CPE
SetSelf(attr, v) ==
    /\ ma' = [ma EXCEPT ![attr] = v]
    /\ mlast' = NoOp
    /\ UNCHANGED mb
    /\ UNCHANGED notMatch

\* dataclasses.replace(cpe, attr=v) on the target CPE
SetTarget(attr, v) ==
    /\ mb' = [mb EXCEPT ![attr] = v]
    /\ mlast' = NoOp
    /\ UNCHANGED ma
    /\ UNCHANGED notMatch

\* self.match(cpe)
Match ==
    /\ mlast' = [op |-> "match", result |-> match(Leaf(ma), mb)]
    /\ UNCHANGED <<ma, mb>>
    /\ UNCHANGED notMatch

\* VersionRange(self, start, end, include_start, include_end).match(cpe)
RangeMatch(start, end, include_start, include_end) ==
    LET range == VersionRange(Leaf(ma), start, end, include_start, include_end)
    IN  /\ mlast' = [op |-> "range", range |-> range, result |-> match(range, mb)]
        /\ UNCHANGED <<ma, mb>>
        /\ UNCHANGED notMatch

NextMatch ==
    \/ \E attr \in DOMAIN SelfValues : \E v \in SelfValues[attr] : SetSelf(attr, v)
    \/ \E attr \in DOMAIN TargetValues : \E v \in TargetValues[attr] : SetTarget(attr, v)
    \/ Match
    \/ \E start \in RangeBounds, end \in RangeBounds, is \in BOOLEAN, ie \in BOOLEAN :
          RangeMatch(start, end, is, ie)

(***************************************************************************)
(* SpecParse: the round trip of a CPE object, the parse of a formatted     *)
(* string, and the load of a feed's JSON (cpe.py, nvd.py)                   *)
(***************************************************************************)
\* the CPE objects: parts, attribute-value strings (plain, with a quoted colon,
\* with wildcards) and languages (without and with a region, the region given in
\* letters or as a UN M.49 code)
ParseCPEs ==
    { [CPE0 EXCEPT !.part = p, !.vendor = v, !.lang = l] :
        p \in {ANY, PartOf("a")},
        v \in {NA, AV(<<"\\", ":">>), AV(<<"?", "x", "*">>)},
        l \in {ANY, NA, Language(<<"e", "n">>, <<>>), Language(<<"E", "N">>, <<"U", "S">>),
               Language(<<"e", "n">>, <<"0", "0", "1">>)} }

CpePrefix == <<"c", "p", "e", ":", "2", ".", "3", ":">>

\* the texts parsed: the prefix, 11 fields of which the vendor and the language
\* vary, and what follows the last field
VendorTexts == {<<"x">>, <<"?", "x", "*">>}
LangTexts == {<<"*">>, <<"-">>, <<"e", "n">>, <<"E", "N">>, <<"e", "n", "-", "U", "S">>,
              <<"e", "n", "-", "0", "0", "1">>}
FieldTexts ==
    { [i \in DOMAIN CPEAttrs |->
          CASE CPEAttrs[i] = "part" -> <<"a">>
            [] CPEAttrs[i] = "vendor" -> v
            [] CPEAttrs[i] = "lang" -> l
            [] OTHER -> <<"*">>] :
        v \in VendorTexts, l \in LangTexts }
TrailTexts == {<<>>, <<NL>>, <<":", "x">>, <<"y">>}

\* the items of a feed's CVE_Items: a configuration leaf with a cpe23Uri, with or
\* without a key _parse_config_node does not handle
MaxItems == 2
JsonItem(id, cpe23Uri, unhandled_key) ==
    [id |-> id, cpe23Uri |-> cpe23Uri, unhandled_key |-> unhandled_key]
GoodUri == formatted_string(CpeX1)
BadUri == CpePrefix \o <<"a", ":", "x">>
JsonItems ==
    { JsonItem(<<"A", "1">>, GoodUri, FALSE), JsonItem(<<"B", "2">>, BadUri, FALSE),
      JsonItem(<<"C", "3">>, GoodUri, TRUE) }
JsonItemSeqs == UNION {[1..n -> JsonItems] : n \in 0..MaxItems}

\* JsonDataSource._parse_config_node on a leaf with a cpe23Uri
_parse_config_node(node) ==
    LET cpe == parse_formatted_string(node.cpe23Uri)
    IN  IF cpe.err THEN [err |-> TRUE, val |-> Leaf(CPE0)]
        ELSE IF node.unhandled_key THEN [err |-> TRUE, val |-> Leaf(CPE0)]
        ELSE [err |-> FALSE, val |-> Leaf(cpe.val)]

\* JsonDataSource.parse_cve (with parse_configurations over the item's one node)
parse_cve(cve_obj) ==
    LET node == _parse_config_node(cve_obj)
    IN  IF node.err THEN [err |-> TRUE, val |-> CveA]
        ELSE [err |-> FALSE,
              val |-> CVE(cve_obj.id, 1, 1, None, <<>>, <<>>, Configurations(<<node.val>>))]

\* JsonDataSource.load(json_obj, meta): a ValueError for a wrong header, else
\* JsonDataSource(meta, generator of parse_cve), whose list(cves) runs the generator
JsonDataSourceLoad(header_ok, items) ==
    IF ~header_ok THEN [raised |-> TRUE, cves |-> <<>>]
    ELSE IF \E i \in DOMAIN items : parse_cve(items[i]).err THEN [raised |-> TRUE, cves |-> <<>>]
    ELSE [raised |-> FALSE, cves |-> [i \in DOMAIN items |-> parse_cve(items[i]).val]]

InitParseVars ==
    /\ pcpe \in ParseCPEs
    /\ plast = NoOp

\* CPE.loads(pcpe.dumps())
RoundTrip ==
    LET dumped == dumps(Leaf(pcpe))
    IN  /\ plast' = [op |-> "dumps_loads", text |-> dumped, result |-> loads(dumped)]
        /\ UNCHANGED pcpe
        /\ UNCHANGED notParse

\* parse_formatted_string(fs) and, when it returns, formatted_string() of the result
ParseFormat(fields, trail) ==
    LET fs == CpePrefix \o JoinColon(fields) \o trail
        r == parse_formatted_string(fs)
    IN  /\ plast' = [op |-> "parse", fields |-> fields, trail |-> trail, fs |-> fs,
                     result |-> r,
                     formatted |-> IF r.err THEN <<>> ELSE formatted_string(r.val)]
        /\ UNCHANGED pcpe
        /\ UNCHANGED notParse

\* JsonDataSource.load of a JSON object with these CVE_Items
JsonLoad(header_ok, items) ==
    /\ plast' = [op |-> "json_load", header_ok |-> header_ok, items |-> items,
                 result |-> JsonDataSourceLoad(header_ok, items)]
    /\ UNCHANGED pcpe
    /\ UNCHANGED notParse

NextParse ==
    \/ RoundTrip
    \/ \E fields \in FieldTexts, trail \in TrailTexts : ParseFormat(fields, trail)
    \/ \E header_ok \in BOOLEAN, items \in JsonItemSeqs : JsonLoad(header_ok, items)

(***************************************************************************)
(* SpecReg: the constructors of feeds and the global FEEDS map (feed.py,   *)
(* db.py)                                                                  *)
(***************************************************************************)
\* how many feed objects a behaviour constructs
MaxFeedObjects == 4

\* the names feeds are constructed with; CVEdb names itself "cves"
RegNames == {"custom", "2002", "cves"}

\* FEEDS[name] = self
DictSet(F, name, self) ==
    [n \in (DOMAIN F) \cup {name} |-> IF n = name THEN self ELSE F[n]]

\* Feed.__init__ without the test for a registered name
FeedInitOverwrites(F, register, name, self) ==
    IF ~register THEN [FEEDS |-> F, raised |-> FALSE]
    ELSE [FEEDS |-> DictSet(F, name, self), raised |-> FALSE]

\* Feed.__init__(self, name, initial_data) of a class whose register attribute is
\* as given, on the FEEDS map F: the map afterwards and whether a ValueError left it
FeedInit(F, register, name, self) ==
    IF ~register THEN [FEEDS |-> F, raised |-> FALSE]
    ELSE IF name \in DOMAIN F THEN [FEEDS |-> F, raised |-> TRUE]
    ELSE [FEEDS |-> DictSet(F, name, self), raised |-> FALSE]

\* the empty dict
NoFeeds == [name \in {} |-> 0]

InitRegVars ==
    /\ FEEDS = NoFeeds
    /\ rmade = 0
    /\ rlast = NoOp

\* a subclass of Feed that keeps register = True (a JsonFeed, a custom feed) is
\* constructed with this name
NewFeed(name) ==
    LET self == rmade + 1
        r == FeedInit(FEEDS, TRUE, name, self)
    IN  /\ rmade < MaxFeedObjects
        /\ rmade' = self
        /\ FEEDS' = r.FEEDS
        /\ rlast' = [op |-> "Feed", register |-> TRUE, name |-> name, self |-> self,
                     before |-> FEEDS, raised |-> r.raised]
        /\ UNCHANGED notReg

\* DbBackedFeed(connection, parent): register = False, Feed.__init__(parent.name),
\* then the PRAGMA user_version test, which raises for a version above 0
NewDbBackedFeed(parent_name, schema_version) ==
    LET self == rmade + 1
        r == FeedInit(FEEDS, FALSE, parent_name, self)
    IN  /\ rmade < MaxFeedObjects
        /\ rmade' = self
        /\ FEEDS' = r.FEEDS
        /\ rlast' = [op |-> "DbBackedFeed", register |-> FALSE, name |-> parent_name,
                     self |-> self, before |-> FEEDS,
                     raised |-> r.raised \/ schema_version > 0]
        /\ UNCHANGED notReg

\* CVEdb(connection, parents=None): register = False, Feed.__init__("cves"), then a
\* DbBackedFeed for each feed of FEEDS.values()
NewCVEdb ==
    LET self == rmade + 1
        r == FeedInit(FEEDS, FALSE, "cves", self)
    IN  /\ rmade < MaxFeedObjects
        /\ rmade' = self + Cardinality(DOMAIN r.FEEDS)
        /\ FEEDS' = r.FEEDS
        /\ rlast' = [op |-> "CVEdb", register |-> FALSE, name |-> "cves", self |-> self,
                     before |-> FEEDS, raised |-> r.raised]
        /\ UNCHANGED notReg

\* FEEDS.values(): the registered feeds in the order of their registration (a dict
\* keeps insertion order, and a feed object's number is its construction order)
RECURSIVE FeedsValues(_)
FeedsValues(F) ==
    IF DOMAIN F = {} THEN <<>>
    ELSE LET n == CHOOSE n \in DOMAIN F : \A m \in DOMAIN F : F[n] <= F[m]
         IN  <<n>> \o FeedsValues([m \in (DOMAIN F) \ {n} |-> F[m]])

\* CVEdb.__init__(connection, parents): the parents its feeds list wraps, one
\* DbBackedFeed each, in order
CVEdbFeeds(F, parents) ==
    IF parents.some THEN parents.v ELSE FeedsValues(F)

\* CVEdbContext.__init__(db_path, parents): the parents attribute it stores
CVEdbContextInit(parents) == [parents |-> None]

\* CVEdbData.reload: the feeds visited, those of self.feeds that are out of date
CVEdbDataReload(feeds, out_of_date) ==
    LET Stale(f) == f \in out_of_date IN SelectSeq(feeds, Stale)

\* the sequences of parents a session is opened with
ParentSeqs(F) ==
    {<<>>} \cup {<<n>> : n \in DOMAIN F}
           \cup {<<n, m>> : n \in DOMAIN F, m \in DOMAIN F}

\* CVEdb.open(db_path, parents).__enter__() followed by data().reload() with the
\* given feeds out of date: the context is constructed, its __enter__ connects and
\* constructs CVEdb(connection, self.parents)
OpenSession(parents, out_of_date) ==
    LET self == rmade + 1
        ctx == CVEdbContextInit(parents)
        r == FeedInit(FEEDS, FALSE, "cves", self)
        feeds == CVEdbFeeds(r.FEEDS, ctx.parents)
    IN  /\ rmade < MaxFeedObjects
        /\ rmade' = self + Len(feeds)
        /\ FEEDS' = r.FEEDS
        /\ rlast' = [op |-> "open", register |-> FALSE, name |-> "cves", self |-> self,
                     before |-> FEEDS, raised |-> r.raised, parents |-> parents,
                     feeds |-> feeds, out_of_date |-> out_of_date,
                     visited |-> CVEdbDataReload(feeds, out_of_date)]
        /\ UNCHANGED notReg

NextReg ==
    \/ \E name \in RegNames : NewFeed(name)
    \/ \E name \in RegNames, schema_version \in {0, 1} : NewDbBackedFeed(name, schema_version)
    \/ NewCVEdb
    \/ \E parents \in {None} \cup {Some(ps) : ps \in ParentSeqs(FEEDS)},
          out_of_date \in SUBSET (DOMAIN FEEDS) :
            OpenSession(parents, out_of_date)

(***************************************************************************)
(* SpecOpen: Schema.open and the migration from schema 0 to 1 (schemas.py) *)
(***************************************************************************)
\* the versions register_schema has registered, and Schema.latest()
SCHEMAS == {0, 1}
Latest == CHOOSE v \in SCHEMAS : \A w \in SCHEMAS : w <= v

\* the database file: PRAGMA user_version, and for each table whether it exists and
\* its rows
TableNames == {"feeds", "cves", "descriptions", "refs", "cpes", "configurations"}
BlankDb == [user_version |-> 0, tables |-> [t \in TableNames |-> None]]

\* the rows a table holds (their content plays no part in open and migrate)
RowIds == {1}

\* CREATE TABLE IF NOT EXISTS t, DROP TABLE IF EXISTS t and PRAGMA user_version = v
CreateTable(db, t) ==
    IF db.tables[t].some THEN db ELSE [db EXCEPT !.tables[t] = Some({})]
DropTable(db, t) == [db EXCEPT !.tables[t] = None]
SetUserVersion(db, v) == [db EXCEPT !.user_version = v]

\* SchemaV0.create(connection, cve_table_create)
V0Create(db) ==
    SetUserVersion(
        CreateTable(CreateTable(CreateTable(db, "feeds"), "cves"), "descriptions"), 0)

\* SchemaV1.create(connection): super().create, the three tables of schema 1, and
\* the version
V1Create(db) ==
    SetUserVersion(
        CreateTable(CreateTable(CreateTable(V0Create(db), "refs"), "cpes"), "configurations"),
        1)

\* what a call returns: the schema (by its version) over the database as the call
\* left it, or an exception
Returned(db, version) == [db |-> db, raised |-> FALSE, version |-> version]
Raises(db) == [db |-> db, raised |-> TRUE, version |-> -1]

\* the terminal: whether stderr and stdin are terminals, and the answers the user
\* gives to the prompt of open and to the prompt of migrate_from_previous
Choices == {"y", "n", ""}
Envs ==
    [stderr_tty : BOOLEAN, stdin_tty : BOOLEAN, choice_open : Choices,
     choice_migrate : Choices]

\* SchemaV1.migrate_from_previous that keeps the tables of schema 0
migrate_from_previous_keeping(db, env) ==
    IF ~env.stdin_tty
    THEN (IF env.stderr_tty THEN Returned(db, 0) ELSE Raises(db))
    ELSE IF env.choice_migrate = "n" THEN Returned(db, 0)
    ELSE Returned(V1Create(db), 1)

\* SchemaV1.migrate_from_previous(previous_schema), previous_schema a SchemaV0
migrate_from_previous(db, env) ==
    IF ~env.stdin_tty
    THEN (IF env.stderr_tty THEN Returned(db, 0) ELSE Raises(db))
    ELSE IF env.choice_migrate = "n" THEN Returned(db, 0)
    ELSE Returned(V1Create(DropTable(DropTable(DropTable(db, "cves"), "feeds"),
                                     "descriptions")), 1)

\* Schema.migrate, called on the latest schema with a schema of this version: one
\* migrate_from_previous per version in between, stopping when one returns the
\* schema it was given
migrate(db, version, env) ==
    IF version >= Latest THEN Returned(db, version)
    ELSE migrate_from_previous(db, env)

\* Schema.open without the test for a blank database
open_any_version_0(db, env) ==
    IF db.user_version \notin SCHEMAS THEN Raises(db)
    ELSE IF db.user_version < Latest /\ env.stderr_tty /\ env.stdin_tty
              /\ env.choice_open # "n"
         THEN migrate(db, db.user_version, env)
    ELSE Returned(db, db.user_version)

\* Schema.open(connection)
open(db, env) ==
    IF db.user_version \notin SCHEMAS THEN Raises(db)
    ELSE IF db.user_version = 0 /\ ~db.tables.cves.some THEN Returned(V1Create(db), Latest)
    ELSE IF db.user_version < Latest /\ env.stderr_tty /\ env.stdin_tty
              /\ env.choice_open # "n"
         THEN migrate(db, db.user_version, env)
    ELSE Returned(db, db.user_version)

\* a database file before any schema touched it, and one a later release wrote
InitOpenVars ==
    /\ odb \in {BlankDb, SetUserVersion(V1Create(BlankDb), Latest + 1)}
    /\ olast = NoOp

\* a release that knows only schema 0 creates its tables in a blank database
CreateV0 ==
    /\ odb.user_version = 0
    /\ ~odb.tables.cves.some
    /\ odb' = V0Create(odb)
    /\ olast' = [op |-> "create"]
    /\ UNCHANGED notOpen

\* a row is written to a table that exists
InsertRow(t, row) ==
    /\ odb.tables[t].some
    /\ row \notin odb.tables[t].v
    /\ odb' = [odb EXCEPT !.tables[t] = Some(@.v \cup {row})]
    /\ olast' = [op |-> "insert"]
    /\ UNCHANGED notOpen

\* Schema.open(connection)
Open(env) ==
    LET r == open(odb, env)
    IN  /\ odb' = r.db
        /\ olast' = [op |-> "open", env |-> env, before |-> odb, raised |-> r.raised,
                     version |-> r.version]
        /\ UNCHANGED notOpen

\* SchemaV1.migrate(SchemaV0(connection)) on a database of schema 0
Migrate(env) ==
    LET r == migrate(odb, 0, env)
    IN  /\ odb.user_version = 0
        /\ odb.tables.cves.some
        /\ odb' = r.db
        /\ olast' = [op |-> "migrate", env |-> env, before |-> odb, raised |-> r.raised,
                     version |-> r.version]
        /\ UNCHANGED notOpen

NextOpen ==
    \/ CreateV0
    \/ \E t \in TableNames, row \in RowIds : InsertRow(t, row)
    \/ \E env \in Envs : Open(env)
    \/ \E env \in Envs : Migrate(env)

(***************************************************************************)
(* SpecSort: the in-memory search of a Data with sort keys (feed.py,       *)
(* search.py)                                                              *)
(***************************************************************************)
\* how many CVEs the Data holds
MaxSortData == 3

\* the members of the enum Sort
SortNames ==
    {"CVE_ID", "DESCRIPTION", "PUBLISHED_DATE", "LAST_MODIFIED_DATE", "IMPACT", "SEVERITY"}

\* what a key is: a number, a string, the bound method cve.description of one CVE
\* object, or the AttributeError raised for the base score of no impact
NumKey(n) == [k |-> "num", v |-> n]
StrKey(s) == [k |-> "str", v |-> s]
MethodKey(cve) == [k |-> "method", v |-> cve.cve_id]
RaiseKey == [k |-> "raise"]

\* Sort.get_key(cve): cve.impact.base_score for IMPACT, and the attribute of the
\* lower-cased name otherwise; CVE.description is a method, CVE.severity a property
get_key(sort, cve) ==
    IF sort = "IMPACT"
    THEN (IF cve.impact.some THEN NumKey(cve.impact.v.score) ELSE RaiseKey)
    ELSE CASE sort = "CVE_ID" -> StrKey(cve.cve_id)
           [] sort = "DESCRIPTION" -> MethodKey(cve)
           [] sort = "PUBLISHED_DATE" -> NumKey(cve.published_date)
           [] sort = "LAST_MODIFIED_DATE" -> NumKey(cve.last_modified_date)
           [] sort = "SEVERITY" -> NumKey(severity(cve))

\* Data.sort_key(*sorts)(cve): the tuple of the keys
sort_key(sorts, cve) == [i \in DOMAIN sorts |-> get_key(sorts[i], cve)]

\* a < b on two key tuples of one length, as Python compares tuples: the first
\* position in which they differ decides, with < on its elements, which raises a
\* TypeError ("E") for two methods
RECURSIVE TupleLess(_, _, _)
TupleLess(a, b, i) ==
    IF i > Len(a) THEN "F"
    ELSE IF a[i] = b[i] THEN TupleLess(a, b, i + 1)
    ELSE IF a[i].k = "method" THEN "E"
    ELSE IF a[i].k = "str" THEN B3(StrLess(a[i].v, b[i].v))
    ELSE B3(a[i].v < b[i].v)

\* the place of x among the sorted xs (from position i on): before the first
\* element that is to come after it; 0 when a comparison raises
RECURSIVE InsertAt(_, _, _, _, _)
InsertAt(xs, x, i, sorts, reverse) ==
    IF i > Len(xs) THEN i
    ELSE LET kx == sort_key(sorts, x)
             ky == sort_key(sorts, xs[i])
             r == IF reverse THEN TupleLess(ky, kx, 1) ELSE TupleLess(kx, ky, 1)
         IN  IF r = "E" THEN 0
             ELSE IF r = "T" THEN i
             ELSE InsertAt(xs, x, i + 1, sorts, reverse)

\* sorted(xs[1..n], key=sort_key(*sorts), reverse=reverse) once every key is at
\* hand: a stable sort, also in reverse; None when a comparison raises (the sorts
\* of SortSeqs make either every comparison raise or none)
RECURSIVE SortedPrefix(_, _, _, _)
SortedPrefix(xs, n, sorts, reverse) ==
    IF n = 0 THEN Some(<<>>)
    ELSE LET before == SortedPrefix(xs, n - 1, sorts, reverse)
         IN  IF ~before.some THEN None
             ELSE LET at == InsertAt(before.v, xs[n], 1, sorts, reverse)
                  IN  IF at = 0 THEN None
                      ELSE Some(Take(before.v, at - 1) \o <<xs[n]>>
                                \o Drop(before.v, at - 1))

\* sorted(self, key=Data.sort_key(*sort), reverse=reverse): the keys are computed
\* first, one per element, and then compared
sorted(xs, sorts, reverse) ==
    IF \E i \in DOMAIN xs, j \in DOMAIN sorts : get_key(sorts[j], xs[i]) = RaiseKey
    THEN None
    ELSE SortedPrefix(xs, Len(xs), sorts, reverse)

\* the CVEs that the loop of Data.search yields from the sorted ones before one
\* raises (or all of them)
RECURSIVE YieldMatches(_, _, _)
YieldMatches(q, xs, i) ==
    IF i > Len(xs) THEN [raised |-> FALSE, cves |-> <<>>]
    ELSE LET m == matches(q, xs[i])
         IN  IF m = "E" THEN [raised |-> TRUE, cves |-> <<>>]
             ELSE LET rest == YieldMatches(q, xs, i + 1)
                  IN  [raised |-> rest.raised,
                       cves |-> (IF m = "T" THEN <<xs[i]>> ELSE <<>>) \o rest.cves]

\* the default of the parameter sort of Data.search
DefaultSort == <<"CVE_ID">>

\* Data.search(query, sort=sort, ascending=ascending) on the Data that iterates xs,
\* consumed to its end
SortedSearch(xs, q, sort, ascending) ==
    LET query == make_query(q)
        s == sorted(xs, sort, ~ascending)
    IN  IF ~s.some THEN [raised |-> TRUE, cves |-> <<>>]
        ELSE YieldMatches(query, s.v, 1)

\* the CVEs of the Data: three with a base score, one without an impact
SortA == CVE(<<"A">>, 3, 5, Some([version |-> 3, score |-> 95]), <<>>, <<>>, Configurations(<<>>))
SortB == CVE(<<"B">>, 1, 5, Some([version |-> 3, score |-> 70]), <<>>, <<>>, Configurations(<<>>))
SortC == CVE(<<"C">>, 2, 4, Some([version |-> 2, score |-> 70]), <<>>, <<>>, Configurations(<<>>))
SortD == CVE(<<"D">>, 2, 6, None, <<>>, <<>>, Configurations(<<>>))
SortCVEs == {SortA, SortB, SortC, SortD}

\* the sort arguments of a search: None for the default
SortSeqs ==
    {<<"CVE_ID">>, <<"IMPACT", "CVE_ID">>, <<"SEVERITY", "CVE_ID">>, <<"PUBLISHED_DATE">>,
     <<"LAST_MODIFIED_DATE", "CVE_ID">>, <<"DESCRIPTION">>, <<"CVE_ID", "DESCRIPTION">>}

\* the queries of a search: every CVE, the CVEs published from 2 on, one id
SortQueries ==
    {AfterPublishedDateQuery(0), AfterPublishedDateQuery(2), TermQuery(<<"B">>, TRUE)}

InitSortVars ==
    /\ qdata = <<>>
    /\ qlast = NoOp

IdleSort == InitSortVars

\* the Data is given one more CVE (the order of qdata is its iteration order)
Put(cve) ==
    /\ Len(qdata) < MaxSortData
    /\ cve \notin Range(qdata)
    /\ qdata' = Append(qdata, cve)
    /\ qlast' = [op |-> "put"]
    /\ UNCHANGED notSort

\* Data.search(q, sort=..., ascending=...), or Data.search(q, ascending=...) when
\* sort is None, consumed to its end
SearchSorted(q, sort, ascending) ==
    LET sorts == IF sort.some THEN sort.v ELSE DefaultSort
        r == SortedSearch(qdata, q, sorts, ascending)
    IN  /\ qlast' = [op |-> "search", q |-> q, sort |-> sort, ascending |-> ascending,
                     raised |-> r.raised, cves |-> r.cves]
        /\ UNCHANGED qdata
        /\ UNCHANGED notSort

NextSort ==
    \/ \E cve \in SortCVEs : Put(cve)
    \/ \E q \in SortQueries, sort \in {None} \cup {Some(s) : s \in SortSeqs},
          ascending \in BOOLEAN : SearchSorted(q, sort, ascending)

(***************************************************************************)
(* SpecWhere: the nodes of where-trees as objects, with their parent       *)
(* pointers (sql.py)                                                       *)
(***************************************************************************)
\* how many Query objects a behaviour constructs, besides the singleton TRUE
MaxNodes == 4

\* the singleton TRUE stands for itself (no method ever makes it a member or gives
\* it a parent); the other objects are numbered from 1 in the order of construction.
\* A node is its class ("simple", "AND", "OR"), its parent (0 for None) and, for a
\* compound, its list queries
THE_TRUE == 0
QueryNode(class, parent, queries) ==
    [class |-> class, parent |-> parent, queries |-> queries]
IsCompoundNode(W, q) == q # THE_TRUE /\ W[q].class \in {"AND", "OR"}

\* the outcome of a method: the objects afterwards and whether it raised
Done(W) == [W |-> W, raised |-> FALSE]
Fail(W) == [W |-> W, raised |-> TRUE]

\* the position of the first member of qs that is q, 0 when there is none
FirstAt(qs, q) ==
    IF \E i \in DOMAIN qs : qs[i] = q
    THEN CHOOSE i \in DOMAIN qs : qs[i] = q /\ \A j \in 1..(i - 1) : qs[j] # q
    ELSE 0

\* CompoundQuery.remove(self = n, query = q): the first member that is q leaves
\* the list and loses its parent; a ValueError when q is no member
remove(W, n, q) ==
    LET i == FirstAt(W[n].queries, q)
    IN  IF i = 0 THEN Fail(W)
        ELSE Done([W EXCEPT ![n].queries = Take(@, i - 1) \o Drop(@, i),
                            ![q].parent = 0])

\* Query.remove_from_parent(self = q); every parent is a compound, which has remove
remove_from_parent(W, q) ==
    IF W[q].parent = 0 THEN Done(W) ELSE remove(W, W[q].parent, q)

RECURSIVE add(_, _, _), extend(_, _, _, _)

\* CompoundQuery.add that appends without detaching the query from its parent
add_without_detaching(W, n, q) ==
    IF q = THE_TRUE THEN Done(W)
    ELSE IF IsCompoundNode(W, q) /\ W[q].class = W[n].class
    THEN extend(W, n, W[q].queries, 1)
    ELSE Done([W EXCEPT ![n].queries = Append(@, q), ![q].parent = n])

\* CompoundQuery.add(self = n, query = q)
add(W, n, q) ==
    IF q = THE_TRUE THEN Done(W)
    ELSE IF IsCompoundNode(W, q) /\ W[q].class = W[n].class
    THEN extend(W, n, W[q].queries, 1)
    ELSE LET r == remove_from_parent(W, q)
         IN  IF r.raised THEN r
             ELSE Done([r.W EXCEPT ![n].queries = Append(@, q), ![q].parent = n])

\* CompoundQuery.extend(self = n, queries = qs), from the i-th query on: the loop
\* runs over the list it was given, whatever becomes of the list of the node that
\* held it
extend(W, n, qs, i) ==
    IF i > Len(qs) THEN Done(W)
    ELSE LET r == add(W, n, qs[i])
         IN  IF r.raised THEN r ELSE extend(r.W, n, qs, i + 1)

\* the arguments of a constructor or of extend: none, or two queries (extend with
\* one query is add, and add makes every order of the members)
QuerySeqs(W) ==
    LET Q == {THE_TRUE} \cup DOMAIN W
    IN  {<<>>} \cup {qs \in {<<q, p>> : q \in Q, p \in Q} : qs[1] < qs[2]}

InitWhereVars ==
    /\ wnodes = <<>>
    /\ wlast = NoOp

IdleWhere == InitWhereVars

\* SimpleQuery(query)
NewSimpleQuery ==
    /\ Len(wnodes) < MaxNodes
    /\ wnodes' = Append(wnodes, QueryNode("simple", 0, <<>>))
    /\ wlast' = [op |-> "SimpleQuery"]
    /\ UNCHANGED notWhere

\* And(*qs) or Or(*qs): CompoundQuery.__init__, the empty list and then extend
NewCompound(operand, qs) ==
    LET n == Len(wnodes) + 1
        r == extend(Append(wnodes, QueryNode(operand, 0, <<>>)), n, qs, 1)
    IN  /\ Len(wnodes) < MaxNodes
        /\ wnodes' = r.W
        /\ wlast' = [op |-> "init", raised |-> r.raised]
        /\ UNCHANGED notWhere

\* n.add(q) on a compound n
AddQuery(n, q) ==
    LET r == add(wnodes, n, q)
    IN  /\ IsCompoundNode(wnodes, n)
        /\ wnodes' = r.W
        /\ wlast' = [op |-> "add", n |-> n, q |-> q, raised |-> r.raised,
                     spliced |-> IsCompoundNode(wnodes, q) /\ wnodes[q].class = wnodes[n].class,
                     moved |-> IF q = THE_TRUE THEN <<>> ELSE wnodes[q].queries]
        /\ UNCHANGED notWhere

\* n.extend(qs) on a compound n
ExtendQuery(n, qs) ==
    LET r == extend(wnodes, n, qs, 1)
    IN  /\ IsCompoundNode(wnodes, n)
        /\ wnodes' = r.W
        /\ wlast' = [op |-> "extend", raised |-> r.raised]
        /\ UNCHANGED notWhere

\* n.remove(q) on a compound n, for a member q or for one that is none
RemoveQuery(n, q) ==
    LET r == remove(wnodes, n, q)
    IN  /\ IsCompoundNode(wnodes, n)
        /\ wnodes' = r.W
        /\ wlast' = [op |-> "remove", q |-> q, raised |-> r.raised]
        /\ UNCHANGED notWhere

NextWhere ==
    \/ NewSimpleQuery
    \/ \E operand \in {"AND", "OR"}, qs \in QuerySeqs(wnodes) : NewCompound(operand, qs)
    \/ \E n \in DOMAIN wnodes, q \in {THE_TRUE} \cup DOMAIN wnodes : AddQuery(n, q)
    \/ \E n \in DOMAIN wnodes, qs \in QuerySeqs(wnodes) : ExtendQuery(n, qs)
    \/ \E n \in DOMAIN wnodes :
          \E q \in {THE_TRUE, n} \cup Range(wnodes[n].queries) : RemoveQuery(n, q)

(***************************************************************************)
(* SpecMig: the loop of Schema.migrate over a chain of registered schema   *)
(* versions (schemas.py)                                                   *)
(***************************************************************************)
\* the registry holds the schema classes of versions 0 .. MaxVersion, each but the
\* first with a migrate_from_previous
MaxVersion == 3
SchemaVersions == 0..MaxVersion

\* what the migrate_from_previous of a version does with the schema before it: it
\* returns a schema of its own version, returns the schema it was given (as
\* SchemaV1 does on the answer "n" or without a terminal to ask on), or raises (as
\* SchemaV1 does when neither stdin nor stderr is a terminal)
StepOutcomes == {"upgrade", "decline", "raise"}

\* Schema.next_version of the schema of version v: None past the last
next_version(v) == IF v + 1 \in SchemaVersions THEN Some(v + 1) ELSE None

\* the result of migrate: the version of the schema returned (or that an exception
\* left the call) and the versions whose migrate_from_previous ran, in order
Migrated(version, steps) == [raised |-> FALSE, version |-> version, steps |-> steps]
MigrateRaised(steps) == [raised |-> TRUE, version |-> -1, steps |-> steps]

RECURSIVE MigrateLoop(_, _, _, _)

\* the loop of Schema.migrate that takes a step that declined for an upgrade
MigrateLoopPastDeclines(target, older, outcome, steps) ==
    IF ~(older < target) THEN Migrated(older, steps)
    ELSE LET next == next_version(older).v
         IN  IF outcome[next] = "raise" THEN MigrateRaised(Append(steps, next))
             ELSE MigrateLoop(target, next, outcome, Append(steps, next))

\* the while loop of Schema.migrate: cls.version is target, older_schema.version is
\* older; a step that returns the object it was given ends the loop
MigrateLoop(target, older, outcome, steps) ==
    IF ~(older < target) THEN Migrated(older, steps)
    ELSE LET next == next_version(older).v
         IN  IF outcome[next] = "raise" THEN MigrateRaised(Append(steps, next))
             ELSE IF outcome[next] = "decline" THEN Migrated(older, Append(steps, next))
             ELSE MigrateLoop(target, next, outcome, Append(steps, next))

\* Schema.migrate(cls, older_schema): a schema newer than cls raises
SchemaMigrate(target, older, outcome) ==
    IF older > target THEN MigrateRaised(<<>>)
    ELSE MigrateLoop(target, older, outcome, <<>>)

InitMigVars ==
    /\ gver \in SchemaVersions
    /\ glast = NoOp

IdleMig ==
    /\ gver = 0
    /\ glast = NoOp

\* the schema of version target migrates the schema at hand, which stays at hand
\* when the call raises
MigrateTo(target, outcome) ==
    LET r == SchemaMigrate(target, gver, outcome)
    IN  /\ gver' = IF r.raised THEN gver ELSE r.version
        /\ glast' = [op |-> "migrate", target |-> target, older |-> gver,
                     outcome |-> outcome, raised |-> r.raised, version |-> r.version,
                     steps |-> r.steps]
        /\ UNCHANGED notMig

NextMig ==
    \E target \in SchemaVersions, outcome \in [1..MaxVersion -> StepOutcomes] :
        MigrateTo(target, outcome)

\* the values the variables of SpecParse and SpecOpen keep in the other
\* specifications
IdleParse ==
    /\ pcpe = CPE0
    /\ plast = NoOp

IdleOpen ==
    /\ odb = BlankDb
    /\ olast = NoOp

(***************************************************************************)
(* Specifications                                                          *)
(***************************************************************************)
vars == <<treeVars, schemaVars, clockVars, dbVars, feedVars, ctxVars, newVars>>

IdleLate == IdleSort /\ IdleWhere /\ IdleMig
IdleNew == InitMatchVars /\ IdleParse /\ InitRegVars /\ IdleOpen /\ IdleLate
IdleOld == IdleTree /\ IdleSchema /\ InitClock /\ InitDbVars /\ IdleFeed /\ InitCtxVars
IdleFirst == IdleOld /\ InitMatchVars /\ IdleParse /\ InitRegVars /\ IdleOpen

InitTree ==
    InitTreeVars /\ IdleSchema /\ InitClock /\ InitDbVars /\ IdleFeed /\ InitCtxVars /\ IdleNew
InitSchema ==
    InitSchemaVars /\ IdleTree /\ InitClock /\ InitDbVars /\ IdleFeed /\ InitCtxVars /\ IdleNew
InitDb ==
    InitDbVars /\ InitClock /\ IdleTree /\ IdleSchema /\ IdleFeed /\ InitCtxVars /\ IdleNew
InitFeed ==
    InitFeedVars /\ InitClock /\ IdleTree /\ IdleSchema /\ InitDbVars /\ InitCtxVars /\ IdleNew
InitCtx ==
    InitCtxVars /\ InitClock /\ IdleTree /\ IdleSchema /\ InitDbVars /\ IdleFeed /\ IdleNew
InitMatch == InitMatchVars /\ IdleOld /\ IdleParse /\ InitRegVars /\ IdleOpen /\ IdleLate

InitParse == InitParseVars /\ IdleOld /\ InitMatchVars /\ InitRegVars /\ IdleOpen /\ IdleLate

InitReg == InitRegVars /\ IdleOld /\ InitMatchVars /\ IdleParse /\ IdleOpen /\ IdleLate

InitOpen == InitOpenVars /\ IdleOld /\ InitMatchVars /\ IdleParse /\ InitRegVars /\ IdleLate

InitSort == InitSortVars /\ IdleFirst /\ IdleWhere /\ IdleMig

InitWhere == InitWhereVars /\ IdleFirst /\ IdleSort /\ IdleMig

InitMig == InitMigVars /\ IdleFirst /\ IdleSort /\ IdleWhere

SpecMig == InitMig /\ [][NextMig]_vars

SpecWhere == InitWhere /\ [][NextWhere]_vars

SpecSort == InitSort /\ [][NextSort]_vars

SpecMatch == InitMatch /\ [][NextMatch]_vars

SpecOpen == InitOpen /\ [][NextOpen]_vars

SpecReg == InitReg /\ [][NextReg]_vars

SpecParse == InitParse /\ [][NextParse]_vars

SpecTree == InitTree /\ [][NextTree]_vars

SpecSchema == InitSchema /\ [][NextSchema]_vars

SpecDb == InitDb /\ [][NextDb]_vars

SpecFeed == InitFeed /\ [][NextFeed]_vars

SpecCtx == InitCtx /\ [][NextCtx]_vars

(***************************************************************************)
(* Claims                                                                  *)
(***************************************************************************)
\* C1: for every applicability tree T (and every Configurations) built from CPE
\* leaves with And/Or, Negate and VersionRange, Testable.loads(T.dumps()) succeeds
\* and equals T.
C1_RoundTrip ==
    tphase = "loaded" => (~loaded.err /\ TestableEq(loaded.val, tree))


\* C2: whenever the compiler translates a query (and matches is defined on every
\* stored CVE), the SQL-driven search raises nothing and returns exactly the stored
\* CVEs of the session's feeds that the query matches.
C2_SqlEqualsMatches ==
    (/\ sop.op = "search"
     /\ to_query(sversion, make_query(sop.q)).k = "select"
     /\ ~InMemorySearch(sversion, Tables, sop.q, sop.feeds).raised) =>
        /\ ~sop.out.raised
        /\ sop.out.rows = InMemorySearch(sversion, Tables, sop.q, sop.feeds).rows

\* C10: adding the same CVE for the same feed again leaves every table - cves,
\* descriptions, refs, cpes, configurations - as the first add left it.
C10_AddIdempotent ==
    [][(sop.op = "add" /\ sop' = sop) => tables' = tables]_vars


\* C3: a search whose query has no SQL translation raises nothing and yields
\* exactly the stored CVEs of the session's feeds that the query matches.
C3_FallbackYieldsMatches ==
    (/\ dlast.op = "search"
     /\ ~_to_sql_clause(make_query(dlast.q)).some
     /\ ~DbInMemorySearch(Store, dlast.q, dlast.feeds).raised) =>
        /\ ~dlast.out.raised
        /\ dlast.out.rows = DbInMemorySearch(Store, dlast.q, dlast.feeds).rows

\* C4: a DbBackedFeed.reload that fails while upserting the k-th CVE leaves the
\* store as it was before the reload: the feed's last_modified and last_checked,
\* the cves rows and the descriptions rows.
C4_FailedReloadLeavesStore ==
    (dlast.op = "feed_reload" /\ dlast.add_failed) => Store = dlast.pre

\* C5: when the session's reload has several out-of-date feeds and one feed's meta
\* fetch or download fails, the failure stays inside the reload, every other
\* out-of-date feed is reloaded, and the failing feed keeps its row and its CVEs.
C5_FetchFailureTolerated ==
    (/\ dsess.phase = "done"
     /\ Len(dsess.out_of_date) >= 2
     /\ dsess.fetch_failed # {}) =>
        /\ ~dsess.raised
        /\ Range(dsess.out_of_date) \ dsess.fetch_failed \subseteq Range(dsess.reloaded)
        /\ (dlast.op = "feed_reload" /\ dlast.fetch_failed) => Store = dlast.pre

\* C7: a feed whose last completed reload evaluated freshness less than
\* UPDATE_INTERVAL_SECONDS before the session's reload is not found out of date by
\* it, and its parent is not asked, however old its last_modified is.
C7_NoProbeWithinInterval ==
    dsess.phase # "idle" =>
        \A i \in DOMAIN dsess.feeds :
            LET f == dsess.feeds[i]
            IN  (/\ dsess.evalBegin[f].some
                 /\ dsess.at - dsess.evalBegin[f].v < Seconds(UPDATE_INTERVAL_SECONDS)) =>
                    /\ f \notin Range(dsess.out_of_date)
                    /\ f \notin dsess.probed

\* C7's case: a session's reload, later than a feed's evaluation and within the
\* interval of it, while the feed's last_modified is more than 24 hours old.
C7_Witness ==
    /\ dsess.phase = "done"
    /\ \E i \in DOMAIN dsess.feeds :
          LET f == dsess.feeds[i]
          IN  /\ dsess.evalBegin[f].some
              /\ dsess.at > dsess.evalBegin[f].v
              /\ dsess.at - dsess.evalBegin[f].v < Seconds(UPDATE_INTERVAL_SECONDS)
              /\ dfeeds[f].last_modified.some
              /\ IntOf(dsess.at) - dfeeds[f].last_modified.v > Seconds(MAX_DATA_AGE_SECONDS)
              /\ f \notin dsess.probed

\* C9: a DbBackedFeed.reload with existing data whose parent's meta is not newer
\* than that data downloads nothing, raises nothing, and changes nothing in the
\* store but the feed's last_checked, which becomes the current time.
C9_UnchangedMetaOnlyStamps ==
    (/\ dlast.op = "feed_reload"
     /\ dlast.probed
     /\ dlast.existing_data.some
     /\ dlast.existing_data.v.last_modified_date.some
     /\ dlast.inp.k # "meta_fail"
     /\ dlast.inp.meta.last_modified_date <= dlast.existing_data.v.last_modified_date.v) =>
        /\ ~dlast.downloaded
        /\ ~dlast.raised
        /\ Store = [dlast.pre EXCEPT !.feeds[dlast.f].last_checked = Some(dlast.at)]


\* C6: on one CVEdbContext, only the outermost enter opens a connection, every
\* nested enter returns the session the outermost enter returned, an inner exit
\* neither commits nor rolls back, and the outermost exit commits the outermost
\* enter's connection, or rolls it back when exiting with an exception.
C6_NestedEntersShareOneConnection ==
    /\ (clast.op = "enter" /\ ~clast.raised) =>
          /\ clast.opened <=> clast.outermost
          /\ clast.returned = cstack[1]
    /\ clast.op = "exit" =>
          /\ ~clast.outermost => (clast.committed = None /\ clast.rolled_back = None)
          /\ (clast.outermost /\ ~clast.exc) =>
                (clast.committed = Some(clast.first.conn) /\ clast.rolled_back = None)
          /\ (clast.outermost /\ clast.exc) =>
                (clast.rolled_back = Some(clast.first.conn) /\ clast.committed = None)

\* C8 as stated: is_out_of_date() is true exactly when the feed has no data or
\* now - last_modified >= MAX_DATA_AGE_SECONDS.
C8_OutOfDateIffAged ==
    flast.op = "is_out_of_date" =>
        (flast.result <=>
            \/ ~fdata.some
            \/ flast.at - fdata.v.last_modified_date >= Seconds(MAX_DATA_AGE_SECONDS))

\* C8, amended: is_out_of_date() is true exactly when the feed has no data or the
\* current time cut to whole seconds, less last_modified, is at least
\* MAX_DATA_AGE_SECONDS.
C8_OutOfDateIffAgedInWholeSeconds ==
    flast.op = "is_out_of_date" =>
        (flast.result <=>
            \/ ~fdata.some
            \/ IntOf(flast.at) - fdata.v.last_modified_date >= Seconds(MAX_DATA_AGE_SECONDS))

\* C8's cases: a feed with no data asked right after construction, and a feed whose
\* data is exactly 24 hours old, are both out of date.
C8_Witness ==
    /\ flast.op = "is_out_of_date"
    /\ flast.result
    /\ fdata.some
    /\ IntOf(flast.at) - fdata.v.last_modified_date = Seconds(MAX_DATA_AGE_SECONDS)

\* C11: for CPEs a and b, a.match(b) is true if and only if every field pair
\* matches: a pair with ANY on either side matches, a pair without ANY in which one
\* side is NA matches only when both sides are NA, and two concrete values match
\* only when they are equal.
C11_MatchIsFieldwise ==
    mlast.op = "match" =>
        LET PairMatches(a, b) ==
                IF a = ANY \/ b = ANY THEN TRUE
                ELSE IF a = NA \/ b = NA THEN a = NA /\ b = NA
                ELSE a = b
        IN  (mlast.result = "T") <=> \A attr \in Range(CPEAttrs) : PairMatches(ma[attr], mb[attr])

\* C12: for a target whose version is a concrete string, VersionRange(w, start,
\* end, include_start, include_end).match(t) is true if and only if the version
\* satisfies the start bound when start is set and the end bound when end is set
\* (both when both are set) and w matches t with the version field ignored.
C12_RangeAppliesBothBounds ==
    (mlast.op = "range" /\ mb.version.k = "str") =>
        LET r == mlast.range
            v == mb.version.v
            startOk == ~r.start.some \/
                       (IF r.include_start THEN StrLessEq(r.start.v, v) ELSE StrLess(r.start.v, v))
            endOk == ~r.end.some \/
                     (IF r.include_end THEN StrLessEq(v, r.end.v) ELSE StrLess(v, r.end.v))
        IN  (mlast.result = "T") <=> (startOk /\ endOk /\ CPEmatch(r.wrapped.cpe, mb, FALSE))

\* C13: for every CPE whose fields are ANY, NA, a Part, a valid Language or a valid
\* AV string other than "*" and "-", CPE.loads(cpe.dumps()) equals the CPE.
C13_CpeRoundTrip ==
    plast.op = "dumps_loads" =>
        /\ ~plast.result.err
        /\ TestableEq(plast.result.val, Leaf(pcpe))

\* the round trip of a CPE with a quoted AV string and a language whose region is a
\* number below 100
C13_Witness ==
    /\ plast.op = "dumps_loads"
    /\ pcpe.vendor = AV(<<"\\", ":">>)
    /\ pcpe.lang.k = "lang" /\ pcpe.lang.region.k = "int"
    /\ ~plast.result.err

\* C16: for every valid CPE 2.3 formatted string s,
\* parse_formatted_string(s).formatted_string() equals s.
C16_FormatOfParseIsIdentity ==
    (plast.op = "parse" /\ ~plast.result.err /\ plast.result.rest = <<>>) =>
        plast.formatted = plast.fs

\* C16 as the code has it: formatting the parsed CPE returns s with the language
\* field in lower case (s itself when its language tag is in lower case).
C16_FormatOfParseLowersLanguage ==
    (plast.op = "parse" /\ ~plast.result.err /\ plast.result.rest = <<>>) =>
        LET i == IndexOf(CPEAttrs, "lang")
            fields == [plast.fields EXCEPT ![i] = Lower(@)]
        IN  plast.formatted = CpePrefix \o JoinColon(fields) \o plast.trail

\* a valid string with an upper-case region in its language tag was parsed and
\* formatted
C16_Witness ==
    /\ plast.op = "parse"
    /\ ~plast.result.err /\ plast.result.rest = <<>>
    /\ plast.fields[IndexOf(CPEAttrs, "lang")] = <<"e", "n", "-", "U", "S">>
    /\ plast.fields[IndexOf(CPEAttrs, "vendor")] = <<"?", "x", "*">>

\* C17: parse_formatted_string rejects every input that has content after the 11th
\* field; it returns a CPE only when the whole input is consumed.
C17_TrailingContentRejected ==
    (plast.op = "parse" /\ ~plast.result.err) => plast.result.rest = <<>>

\* C20: a parse error in one CVE item of a feed's JSON does not abort the load: the
\* data source holds every other item; only a failure of the whole feed aborts.
C20_ItemErrorsSkipped ==
    (plast.op = "json_load" /\ plast.header_ok) =>
        /\ ~plast.result.raised
        /\ {plast.result.cves[i].cve_id : i \in DOMAIN plast.result.cves}
              = {plast.items[i].id : i \in {j \in DOMAIN plast.items : ~parse_cve(plast.items[j]).err}}

\* C14: Feed.data() on a feed that is out of date (a feed without data included)
\* calls reload exactly once, passing the cached data, and caches and returns data
\* holding exactly the CVEs the returned source yields, stamped with the source's
\* last_modified_date; data() without force_reload on a feed that is not out of date
\* returns the cached data and does not call reload.
C14_DataReloadsWhenOutOfDate ==
    (flast.op = "data" /\ ~flast.raised) =>
        /\ flast.out_of_date =>
              /\ flast.reload_calls = <<flast.cached>>
              /\ fdata.some
              /\ fdata.v.cves = Range(flast.reload.source.yields)
              /\ fdata.v.last_modified_date = flast.reload.source.last_modified_date
              /\ flast.returned = fdata
        /\ (~flast.out_of_date /\ ~flast.force_reload) =>
              /\ flast.reload_calls = <<>>
              /\ fdata = flast.cached
              /\ flast.returned = flast.cached

\* data() on a feed whose cached data had aged past a day reloaded it to a source
\* of two CVEs
C14_Witness ==
    /\ flast.op = "data"
    /\ ~flast.raised /\ ~flast.force_reload
    /\ flast.cached.some /\ flast.out_of_date
    /\ fdata.some /\ Cardinality(fdata.v.cves) = 2

\* C15: constructing a feed whose class registers itself makes FEEDS[name] that
\* feed object; constructing a second registering feed with a registered name
\* raises and leaves FEEDS unchanged; constructing a DbBackedFeed or a CVEdb never
\* changes FEEDS.
C15_FeedsRegistry ==
    rlast.op \in {"Feed", "DbBackedFeed", "CVEdb"} =>
        IF ~rlast.register THEN FEEDS = rlast.before
        ELSE IF rlast.name \in DOMAIN rlast.before THEN rlast.raised /\ FEEDS = rlast.before
        ELSE /\ ~rlast.raised
             /\ DOMAIN FEEDS = (DOMAIN rlast.before) \cup {rlast.name}
             /\ FEEDS[rlast.name] = rlast.self
             /\ \A n \in DOMAIN rlast.before : FEEDS[n] = rlast.before[n]

\* a second registering feed was constructed with a name that another feed object
\* holds in FEEDS, and was refused
C15_Witness ==
    /\ rlast.op = "Feed"
    /\ rlast.raised
    /\ rlast.name \in DOMAIN FEEDS
    /\ FEEDS[rlast.name] < rlast.self
    /\ Cardinality(DOMAIN FEEDS) = 2

\* C18: Schema.open decides by the stored user_version: an unregistered version
\* raises and leaves the database unchanged; version 0 with no cves table creates
\* the tables of the latest schema and returns the latest schema; a registered
\* version below the latest (of a database that is not blank), when the terminal is
\* not interactive, returns the schema of the stored version and leaves the database
\* unchanged.
C18_OpenDecidesByVersion ==
    olast.op = "open" =>
        LET before == olast.before
            blank == before.user_version = 0 /\ ~before.tables.cves.some
            interactive == olast.env.stderr_tty /\ olast.env.stdin_tty
        IN  /\ before.user_version \notin SCHEMAS => (olast.raised /\ odb = before)
            /\ blank =>
                  /\ ~olast.raised
                  /\ olast.version = Latest
                  /\ odb.user_version = Latest
                  /\ \A t \in TableNames : odb.tables[t].some
            /\ (before.user_version \in SCHEMAS /\ before.user_version < Latest
                   /\ ~blank /\ ~interactive) =>
                  /\ ~olast.raised
                  /\ olast.version = before.user_version
                  /\ odb = before

\* open without a terminal returned schema 0 over a database of schema 0 that
\* holds rows, and left it as it was
C18_Witness ==
    /\ olast.op = "open"
    /\ ~olast.raised
    /\ ~olast.env.stdin_tty
    /\ olast.version = 0
    /\ olast.before.tables.cves = Some(RowIds)

\* C19: an accepted migration from schema 0 to 1 leaves feeds, cves and descriptions
\* empty, creates refs, cpes and configurations and sets user_version to 1; a
\* declined migration (the answer n, or stdin not interactive while stderr is a
\* terminal) returns the schema 0 with every table and user_version unchanged; after
\* Schema.open the stored user_version equals the version of the returned schema.
C19_MigrationWipesOrKeeps ==
    /\ (olast.op \in {"open", "migrate"} /\ olast.before.user_version = 0
          /\ olast.before.tables.cves.some) =>
          LET env == olast.env
              asked == olast.op = "migrate" \/
                       (env.stderr_tty /\ env.stdin_tty /\ env.choice_open # "n")
              accepted == asked /\ env.stdin_tty /\ env.choice_migrate # "n"
              declined == asked /\ \/ env.stdin_tty /\ env.choice_migrate = "n"
                                   \/ ~env.stdin_tty /\ env.stderr_tty
          IN  /\ accepted =>
                    /\ \A t \in {"feeds", "cves", "descriptions"} : odb.tables[t] = Some({})
                    /\ \A t \in {"refs", "cpes", "configurations"} : odb.tables[t].some
                    /\ odb.user_version = 1
                    /\ olast.version = 1
              /\ declined => (~olast.raised /\ olast.version = 0 /\ odb = olast.before)
    /\ (olast.op = "open" /\ ~olast.raised) => odb.user_version = olast.version

\* open, with the user accepting at both prompts, migrated a database of schema 0
\* that held rows in cves
C19_Witness ==
    /\ olast.op = "open"
    /\ olast.before.user_version = 0
    /\ olast.before.tables.cves = Some(RowIds)
    /\ olast.version = 1
    /\ odb.tables.cves = Some({})

\* C21: a session opened with an explicit sequence of parent feeds has exactly one
\* database-backed feed per given parent, in the given order, and its reload visits
\* the out-of-date ones in that order; without a sequence it has the registered feeds
C21_SessionUsesGivenParents ==
    rlast.op = "open" =>
        LET expected == IF rlast.parents.some THEN rlast.parents.v
                        ELSE FeedsValues(rlast.before)
        IN  /\ rlast.feeds = expected
            /\ rlast.visited = CVEdbDataReload(expected, rlast.out_of_date)

\* C22: Data.search with sort keys and the flag ascending returns the matching CVEs
\* ordered lexicographically by the key tuple, non-decreasing when ascending and
\* non-increasing when descending, with ascending CVE_ID as the default
C22_SearchIsSorted ==
    qlast.op = "search" =>
        LET sorts == IF qlast.sort.some THEN qlast.sort.v ELSE <<"CVE_ID">>
            Key(i) == sort_key(sorts, qlast.cves[i])
        IN  /\ ~qlast.raised
            /\ Range(qlast.cves) =
                   {c \in Range(qdata) : matches(qlast.q, c) = "T"}
            /\ \A i, j \in DOMAIN qlast.cves : i < j => qlast.cves[i] # qlast.cves[j]
            /\ \A i, j \in DOMAIN qlast.cves :
                   i < j => IF qlast.ascending THEN TupleLess(Key(j), Key(i), 1) = "F"
                            ELSE TupleLess(Key(i), Key(j), 1) = "F"

\* C23: after any construct, add, extend and remove on And/Or nodes, every member
\* of a compound has that compound as its parent, no member is TRUE or a compound
\* of the same operand as the node that holds it (an added one had its children
\* spliced in, in their order), no node is a member twice or of two compounds, and
\* a node that remove took out of its parent has no parent
C23_WhereTreeWellFormed ==
    /\ \A n \in DOMAIN wnodes : \A i \in DOMAIN wnodes[n].queries :
          LET q == wnodes[n].queries[i]
          IN  /\ q # THE_TRUE
              /\ wnodes[q].parent = n
              /\ wnodes[q].class # wnodes[n].class
              /\ \A m \in DOMAIN wnodes : \A j \in DOMAIN wnodes[m].queries :
                    wnodes[m].queries[j] = q => (m = n /\ j = i)
    /\ \A n \in DOMAIN wnodes : wnodes[n].class = "simple" => wnodes[n].queries = <<>>
    /\ (wlast.op = "remove" /\ ~wlast.raised) =>
          /\ wnodes[wlast.q].parent = 0
          /\ \A n \in DOMAIN wnodes : FirstAt(wnodes[n].queries, wlast.q) = 0
    /\ (wlast.op = "add" /\ wlast.spliced /\ wlast.q # wlast.n) =>
          /\ ~wlast.raised
          /\ Len(wnodes[wlast.n].queries) >= Len(wlast.moved)
          /\ Drop(wnodes[wlast.n].queries,
                  Len(wnodes[wlast.n].queries) - Len(wlast.moved)) = wlast.moved

\* a compound with two children was added to one of its operand, and its children
\* moved over
C23_Witness ==
    /\ wlast.op = "add"
    /\ wlast.spliced
    /\ wlast.q # wlast.n
    /\ Len(wlast.moved) = 2
    /\ Len(wnodes[wlast.n].queries) = 2
    /\ wnodes[wlast.q].queries = <<>>

RECURSIVE MeantBindings(_)
\* the placeholders that the translation of a query writes, in the order of the
\* query's tree, each with the clause it stands in and the value it is written for
MeantBindings(q) ==
    CASE q.t = "term" ->
            LET query_text == IF q.case_sensitive THEN q.query ELSE Upper(q.query)
                b == [clause |-> LikeSql(~q.case_sensitive),
                      value |-> TextParam(LikePattern(query_text))]
            IN  <<b, b>>
      [] q.t = "before_published" ->
            <<[clause |-> CmpSql("published", "<="), value |-> IntParam(q.date)]>>
      [] q.t = "before_modified" ->
            <<[clause |-> CmpSql("last_modified", "<="), value |-> IntParam(q.date)]>>
      [] q.t = "after_published" ->
            <<[clause |-> CmpSql("published", ">="), value |-> IntParam(q.date)]>>
      [] q.t = "after_modified" ->
            <<[clause |-> CmpSql("last_modified", ">="), value |-> IntParam(q.date)]>>
      [] q.t \in {"and", "or"} ->
            ConcatAll([i \in DOMAIN q.sub_queries |-> MeantBindings(q.sub_queries[i])])
      [] OTHER -> <<>>

RECURSIVE MeantCpeBindings(_)
\* the placeholders written for the CPE queries of a query, in the order of the
\* query's tree: one for each attribute of the CPE that is a string
MeantCpeBindings(q) ==
    CASE q.t = "cpe" ->
            [j \in DOMAIN StrAttrs(q.cpe) |->
                [clause |-> PEqSql(StrAttrs(q.cpe)[j]),
                 value |-> TextParam(q.cpe[StrAttrs(q.cpe)[j]].v)]]
      [] q.t \in {"and", "or"} ->
            ConcatAll([i \in DOMAIN q.sub_queries |-> MeantCpeBindings(q.sub_queries[i])])
      [] OTHER -> <<>>

\* C24: for every search query that the compiler translates, the executed Select
\* has as many params as its SQL text has placeholders, and the i-th param is the
\* value meant for the i-th placeholder: those of the terms and dates in the order
\* of the tree, then the feed ids, then the values of the CPE fields
C24_ParamsAlignWithPlaceholders ==
    (sop.op = "search" /\ sop.select.k = "select") =>
        LET feeds == [i \in DOMAIN sop.feeds |->
                        [clause |-> FeedsSql(Len(sop.feeds)), value |-> IntParam(sop.feeds[i])]]
            meant == MeantBindings(sop.q) \o feeds \o MeantCpeBindings(sop.q)
            slots == Placeholders(sop.select.where.v)
        IN  /\ sop.select.where.some
            /\ Len(sop.select.params) = Len(slots)
            /\ Len(slots) = Len(meant)
            /\ \A i \in DOMAIN slots :
                  /\ slots[i] = meant[i].clause
                  /\ sop.select.params[i] = meant[i].value

\* a query of schema version 1 was translated whose And holds a CPE query and an Or
\* of a term and a date, for a session of two feeds
C24_Witness ==
    /\ sop.op = "search"
    /\ sversion = 1
    /\ sop.select.k = "select"
    /\ sop.q.t = "and"
    /\ \E i \in DOMAIN sop.q.sub_queries : sop.q.sub_queries[i].t = "cpe"
    /\ \E i \in DOMAIN sop.q.sub_queries : sop.q.sub_queries[i].t = "or"
    /\ Len(sop.feeds) = 2
    /\ Len(sop.select.params) = 6

\* C25: after any sequence of SchemaV1.add calls, no two rows of cpes are equal on
\* all ten columns, and every row of configurations links a CVE to the cpes row of
\* one of its vulnerable CPEs
C25_CpesRowsUnique ==
    sversion = 1 =>
        /\ \A i, j \in DOMAIN scpes : scpes[i] = scpes[j] => i = j
        /\ \A c \in sconfs :
              /\ c.cpe \in DOMAIN scpes
              /\ \E cve \in CVESet :
                    /\ cve.cve_id = c.cve
                    /\ \E k \in DOMAIN vulnerable_cpes(cve.configurations) :
                          scpes[c.cpe] = CpeRow(vulnerable_cpes(cve.configurations)[k])

RECURSIVE CpeLeaves(_, _)
\* the CPE leaves of a tree from left to right, one entry for each occurrence, each
\* with whether its path from the root passes through a Negate or through an
\* And/Or whose negate is set (through is whether the path to t does already)
CpeLeaves(t, through) ==
    CASE t.uid = "c" -> <<[cpe |-> t.cpe, through |-> through]>>
      [] t.uid \in {"a", "o"} ->
            ConcatAll([i \in DOMAIN t.children |->
                          CpeLeaves(t.children[i], through \/ t.negate)])
      [] t.uid = "!" -> CpeLeaves(t.wrapped, TRUE)
      [] t.uid = "v" -> CpeLeaves(t.wrapped, through)
      [] t.uid = "C" ->
            ConcatAll([i \in DOMAIN t.testable |-> CpeLeaves(t.testable[i], through)])

\* C27: vulnerable_cpes() yields exactly the CPE leaves whose path from the root
\* passes through no Negate and no And/Or with negate set (a VersionRange passes its
\* wrapped node through), each once per occurrence and from left to right; a
\* Configurations yields the concatenation over its trees
C27_VulnerableCpesAreUnnegatedLeaves ==
    LET open_leaves == SelectRows(CpeLeaves(tree, FALSE), LAMBDA l : ~l.through)
    IN  /\ vulnerable_cpes(tree) = [i \in DOMAIN open_leaves |-> open_leaves[i].cpe]
        /\ tree.uid = "C" =>
              vulnerable_cpes(tree) =
                  ConcatAll([i \in DOMAIN tree.testable |-> vulnerable_cpes(tree.testable[i])])

\* a Configurations of two trees with three leaves, of which one is below a Negate
\* and two are yielded
C27_Witness ==
    /\ tree.uid = "C"
    /\ Len(tree.testable) = 2
    /\ Len(CpeLeaves(tree, FALSE)) = 3
    /\ \E i \in DOMAIN CpeLeaves(tree, FALSE) : CpeLeaves(tree, FALSE)[i].through
    /\ Len(vulnerable_cpes(tree)) = 2

\* the versions older + 1 .. target whose migrate_from_previous does not upgrade
NotUpgrading(older, target, outcome) ==
    {v \in (older + 1)..target : outcome[v] # "upgrade"}

\* the first of them
FirstNotUpgrading(older, target, outcome) ==
    CHOOSE v \in NotUpgrading(older, target, outcome) :
        \A w \in NotUpgrading(older, target, outcome) : v <= w

\* C28 as stated: Target.migrate(older) with older.version <= Target.version runs at
\* most Target.version - older.version steps, the migrators of older.version + 1, ...
\* in increasing order and each at most once; it returns a schema of Target.version
\* when every step upgraded, and otherwise the schema at which the first step
\* declined, without running a later step; the version returned is never lower
\* than older.version
C28_MigrateWalksForward ==
    (glast.op = "migrate" /\ glast.older <= glast.target) =>
        LET bad == NotUpgrading(glast.older, glast.target, glast.outcome)
            first == FirstNotUpgrading(glast.older, glast.target, glast.outcome)
        IN  /\ Len(glast.steps) <= glast.target - glast.older
            /\ \A i \in DOMAIN glast.steps : glast.steps[i] = glast.older + i
            /\ ~glast.raised
            /\ glast.version >= glast.older
            /\ IF bad = {}
               THEN glast.version = glast.target /\ Len(glast.steps) = glast.target - glast.older
               ELSE glast.version = first - 1 /\ Len(glast.steps) = first - glast.older

\* C28, amended: as above, but a step may also raise; then migrate raises and no
\* later step runs, and a schema is returned only when no step raised before one
\* declined
C28_MigrateWalksForwardOrRaises ==
    (glast.op = "migrate" /\ glast.older <= glast.target) =>
        LET bad == NotUpgrading(glast.older, glast.target, glast.outcome)
            first == FirstNotUpgrading(glast.older, glast.target, glast.outcome)
        IN  /\ Len(glast.steps) <= glast.target - glast.older
            /\ \A i \in DOMAIN glast.steps : glast.steps[i] = glast.older + i
            /\ IF bad = {}
               THEN /\ ~glast.raised
                    /\ glast.version = glast.target
                    /\ Len(glast.steps) = glast.target - glast.older
               ELSE /\ Len(glast.steps) = first - glast.older
                    /\ glast.raised <=> glast.outcome[first] = "raise"
                    /\ ~glast.raised => glast.version = first - 1
            /\ ~glast.raised => glast.version >= glast.older

\* a migration over three versions whose first step upgraded and whose second
\* declined: two steps ran and the schema of the first step's version came back
C28_Witness ==
    /\ glast.op = "migrate"
    /\ glast.older = 0
    /\ glast.target = 3
    /\ glast.outcome[1] = "upgrade"
    /\ glast.outcome[2] = "decline"
    /\ glast.steps = <<1, 2>>
    /\ ~glast.raised
    /\ glast.version = 1

\* C29: len of the data of a database-backed feed, or of a session over several
\* feeds, is the number of CVEs its iteration yields: the number of cves rows whose
\* feed is among the feeds of the data
C29_LenCountsOwnRows ==
    (dsess.phase = "done" /\ ~dsess.raised /\ dsess.trigger = "len") =>
        dsess.result.count =
            Cardinality({c \in dcves : \E i \in DOMAIN dsess.feeds : dsess.feeds[i] = c.feed})

\* C30: on a CVEdbContext the entry counter is never negative and a connection is
\* held exactly when the counter is positive; an enter whose connect fails leaves
\* the counter as it was before that enter, so that once every enter that
\* returned has exited, the counter is 0 and the connection is released.
C30_CounterTracksConnection ==
    /\ centries >= 0
    /\ cconn.some <=> centries > 0
    /\ (clast.op = "enter" /\ clast.raised) => centries = clast.entries
    /\ cstack = <<>> => (centries = 0 /\ cconn = None)
=============================================================================
